---- MODULE Spec2Model ----
(***************************************************************************)
(* metaFirst supervisor: the RDMP version store (api/rdmp.py), the schema  *)
(* validator (services/rdmp_service.py) and the permission resolver        *)
(* (services/permission_service.py), modelled as concurrent request        *)
(* handlers over one shared relational store.                              *)
(*                                                                         *)
(* JSON values: a dict is a function whose DOMAIN is its key set, a list   *)
(* is a sequence, null/None is None == <<>> and a present value x of an    *)
(* optional column or attribute is Some(x) == <<x>>.                       *)
(***************************************************************************)
EXTENDS Integers, Sequences, FiniteSets, TLC

\* ---------------------------------------------------------------- bounds
MaxProcs == 2       \* request handlers running concurrently
MaxVersion == 2     \* versions committed per scope
MaxEntries == 3     \* entries of "roles" and of "fields" in a validated document
MaxChars == 3       \* characters of a string value of a sample field
MaxValues == 3      \* field values of a sample

Procs == 1..MaxProcs
Writers == {1}      \* the handler that appends while permissions are resolved
Projects == {1}
Users == {1}
TemplateNames == {"base", "alt"}
TemplateIds == {1, 2}
ReleaseProjects == {1, 2}
ProjectIds == Projects \cup ReleaseProjects
Tags == {"v1"}
VersionIds == {1, 2}
MaxReleases == 3    \* releases created in a run of corrections
MaxAuditEntries == 3   \* entries recorded in a run of the audit log
MaxWatchers == 3    \* watcher configs of one configuration file
SampleIds == {1}
SampleBefore == [sample_identifier |-> "S-1"]
SampleAfter == [sample_identifier |-> "S-2"]
CorrectionTags == {"v1", "v1.1", "v1.2"}
ReleaseIds == 1..MaxReleases

None == <<>>
Range(seq) == {seq[i] : i \in DOMAIN seq}
Some(x) == <<x>>
Get(d, k, default) == IF k \in DOMAIN d THEN d[k] ELSE default

\* ------------------------------------------------- schemas/rdmp.py, bodies
required_perms == <<"can_edit_metadata", "can_edit_paths", "can_create_release", "can_manage_rdmp">>
PermKeys == {required_perms[i] : i \in 1..Len(required_perms)}
FieldTypes == {"string", "number", "date", "categorical"}
Visibilities == {"private", "collaborators", "public_index"}

Grant(S) == [k \in PermKeys |-> k \in S]
AllFalse == Grant({})

\* RDMPRole.model_dump(): the declared attributes, nothing else.
DumpRole(r) == [name |-> r.name, permissions |-> r.permissions]

\* variant: the field stored as the client sent it
DumpFieldAsGiven(f) == f

\* RDMPField.model_dump(): declared attributes, defaults filled in.
DumpField(f) ==
  [key |-> f.key, label |-> f.label, type |-> f.type,
   required |-> Get(f, "required", FALSE),
   allowed_values |-> Get(f, "allowed_values", None),
   visibility |-> Get(f, "visibility", "collaborators")]

\* RDMPIngestionRules.model_dump()
DumpRules(g) ==
  [file_patterns |-> Get(g, "file_patterns", <<>>),
   prompts |-> Get(g, "prompts", <<>>)]

\* Parsing of the request body into RDMPJSON: attributes without a default
\* must be present, otherwise the request is rejected before the handler.
ParsesAsRDMPJSON(raw) ==
  /\ {"roles", "fields"} \subseteq DOMAIN raw
  /\ \A i \in 1..Len(raw.roles) : {"name", "permissions"} \subseteq DOMAIN raw.roles[i]
  /\ \A i \in 1..Len(raw.fields) : {"key", "label", "type"} \subseteq DOMAIN raw.fields[i]

\* RDMPJSON.model_dump() of a parsed request body.
ModelDump(raw) ==
  [roles |-> [i \in 1..Len(raw.roles) |-> DumpRole(raw.roles[i])],
   fields |-> [i \in 1..Len(raw.fields) |-> DumpField(raw.fields[i])],
   ingestion_rules |-> DumpRules(Get(raw, "ingestion_rules", <<>>))]

\* ---------------------------------- services/rdmp_service.py, validator
IdxStr(i) == CASE i = 0 -> "0" [] i = 1 -> "1" [] i = 2 -> "2" [] i = 3 -> "3"
                  [] i = 4 -> "4" [] OTHER -> "n"
Err(code, ref, what) == [code |-> code, ref |-> ref, what |-> what]

\* role.get('name', i) / field.get('key', i) as used in the messages
RefOf(d, k, i) == IF k \in DOMAIN d THEN d[k] ELSE IdxStr(i)

\* variant: the four permission keys are not checked
NoMissingPermErrors(role, i) == <<>>

MissingPermErrors(role, i) ==
  LET miss(j) == IF required_perms[j] \notin DOMAIN role.permissions
                 THEN <<Err("role_missing_permission", RefOf(role, "name", i), required_perms[j])>>
                 ELSE <<>>
  IN  miss(1) \o miss(2) \o miss(3) \o miss(4)

\* variant: a repeated name is merged into the first occurrence
RECURSIVE RoleErrorsMerged(_, _, _)
RoleErrorsMerged(roles, n, role_names) ==
  IF n > Len(roles) THEN <<>>
  ELSE LET role == roles[n]
           e_name == IF "name" \notin DOMAIN role
                     THEN <<Err("role_missing_name", IdxStr(n - 1), "name")>>
                     ELSE <<>>
           e_perm == IF "permissions" \notin DOMAIN role
                     THEN <<Err("role_missing_permissions", IdxStr(n - 1), "permissions")>>
                     ELSE MissingPermErrors(role, n - 1)
       IN  e_name \o e_perm \o RoleErrorsMerged(roles, n + 1, role_names)

RECURSIVE RoleErrors(_, _, _)
RoleErrors(roles, n, role_names) ==
  IF n > Len(roles) THEN <<>>
  ELSE LET role == roles[n]
           i == n - 1
           e_name == IF "name" \notin DOMAIN role
                     THEN <<Err("role_missing_name", IdxStr(i), "name")>>
                     ELSE IF role.name \in role_names
                          THEN <<Err("duplicate_role_name", role.name, "name")>>
                          ELSE <<>>
           names2 == IF "name" \in DOMAIN role THEN role_names \cup {role.name} ELSE role_names
           e_perm == IF "permissions" \notin DOMAIN role
                     THEN <<Err("role_missing_permissions", IdxStr(i), "permissions")>>
                     ELSE MissingPermErrors(role, i)
       IN  e_name \o e_perm \o RoleErrors(roles, n + 1, names2)

\* variant: the entries of "fields" are not looked at
FieldErrorsNone(fields, n, field_keys) == <<>>

RECURSIVE FieldErrors(_, _, _)
FieldErrors(fields, n, field_keys) ==
  IF n > Len(fields) THEN <<>>
  ELSE LET field == fields[n]
           i == n - 1
           e_key == IF "key" \notin DOMAIN field
                    THEN <<Err("field_missing_key", IdxStr(i), "key")>>
                    ELSE IF field.key \in field_keys
                         THEN <<Err("duplicate_field_key", field.key, "key")>>
                         ELSE <<>>
           keys2 == IF "key" \in DOMAIN field THEN field_keys \cup {field.key} ELSE field_keys
           e_label == IF "label" \notin DOMAIN field
                      THEN <<Err("field_missing_label", IdxStr(i), "label")>>
                      ELSE <<>>
           e_type == IF "type" \notin DOMAIN field
                     THEN <<Err("field_missing_type", IdxStr(i), "type")>>
                     ELSE IF field.type \notin FieldTypes
                          THEN <<Err("field_invalid_type", RefOf(field, "key", i), field.type)>>
                          ELSE <<>>
           e_vis == IF "visibility" \in DOMAIN field /\ field.visibility \notin Visibilities
                    THEN <<Err("field_invalid_visibility", RefOf(field, "key", i), field.visibility)>>
                    ELSE <<>>
           e_cat == IF Get(field, "type", "") = "categorical" /\ "allowed_values" \notin DOMAIN field
                    THEN <<Err("categorical_missing_allowed_values", RefOf(field, "key", i), "allowed_values")>>
                    ELSE <<>>
       IN  e_key \o e_label \o e_type \o e_vis \o e_cat \o FieldErrors(fields, n + 1, keys2)

\* variant: the fields are looked at only when the roles are in order
validate_rdmp_schema_stop_early(rdmp_json) ==
  LET e_roles == IF "roles" \notin DOMAIN rdmp_json
                 THEN <<Err("missing_roles_key", "roles", "roles")>>
                 ELSE IF Len(rdmp_json.roles) = 0
                      THEN <<Err("roles_not_nonempty_list", "roles", "roles")>>
                      ELSE RoleErrors(rdmp_json.roles, 1, {})
      e_fields == IF "fields" \notin DOMAIN rdmp_json
                  THEN <<Err("missing_fields_key", "fields", "fields")>>
                  ELSE IF Len(rdmp_json.fields) = 0
                       THEN <<Err("fields_not_nonempty_list", "fields", "fields")>>
                       ELSE FieldErrors(rdmp_json.fields, 1, {})
  IN  IF Len(e_roles) > 0 THEN e_roles ELSE e_fields

\* The handlers pass model_dump() of a parsed RDMPJSON, in which "roles" and
\* "fields" are lists of dicts: the isinstance(..., list) tests always pass,
\* which leaves the emptiness tests.
validate_rdmp_schema_errors(rdmp_json) ==
  LET e_top == (IF "roles" \notin DOMAIN rdmp_json
                THEN <<Err("missing_roles_key", "roles", "roles")>> ELSE <<>>)
               \o (IF "fields" \notin DOMAIN rdmp_json
                   THEN <<Err("missing_fields_key", "fields", "fields")>> ELSE <<>>)
      e_roles == IF "roles" \notin DOMAIN rdmp_json THEN <<>>
                 ELSE IF Len(rdmp_json.roles) = 0
                      THEN <<Err("roles_not_nonempty_list", "roles", "roles")>>
                      ELSE RoleErrors(rdmp_json.roles, 1, {})
      e_fields == IF "fields" \notin DOMAIN rdmp_json THEN <<>>
                  ELSE IF Len(rdmp_json.fields) = 0
                       THEN <<Err("fields_not_nonempty_list", "fields", "fields")>>
                       ELSE FieldErrors(rdmp_json.fields, 1, {})
  IN  e_top \o e_roles \o e_fields

\* variant: every body is accepted
validate_rdmp_schema_accept(rdmp_json) == [ok |-> TRUE, errors |-> <<>>]

validate_rdmp_schema(rdmp_json) ==
  LET errors == validate_rdmp_schema_errors(rdmp_json)
  IN  [ok |-> Len(errors) = 0, errors |-> errors]

\* --------------------------------------- the validator on any Python value
\* The service function takes whatever its caller passes.  A value carries
\* its Python type: t is the type name, v the content.
JDict(f) == [t |-> "dict", v |-> f]
JList(s) == [t |-> "list", v |-> s]
JStr(s) == [t |-> "str", v |-> s]
JBool(b) == [t |-> "bool", v |-> b]
JInt(n) == [t |-> "int", v |-> n]
JNull == [t |-> "NoneType", v |-> <<>>]

\* `k in x` is defined for containers and strings; on int, bool and None it
\* raises TypeError.
SupportsIn(x) == x.t \in {"dict", "list", "str"}
\* the keys k for which `k in x` is true (for a str the substring test; no
\* string of the inputs properly contains a key)
KeysOf(x) ==
  CASE x.t = "dict" -> DOMAIN x.v
    [] x.t = "list" -> {x.v[i].v : i \in {j \in DOMAIN x.v : x.v[j].t = "str"}}
    [] x.t = "str" -> {x.v}
    [] OTHER -> {}
\* x[k] with a str k: only a dict has it; `x.get` likewise
Subscriptable(x) == x.t = "dict"
\* members of a set must be hashable
Hashable(x) == x.t \notin {"dict", "list"}

\* the operations of lines 27-42 on one entry of "roles"
RoleRaises(role) ==
  \/ ~SupportsIn(role)
  \/ /\ "name" \in KeysOf(role)
     /\ ~Subscriptable(role) \/ ~Hashable(role.v["name"])
  \/ /\ "permissions" \in KeysOf(role)
     /\ ~Subscriptable(role) \/ ~SupportsIn(role.v["permissions"])

\* the operations of lines 50-72 on one entry of "fields"; field.get in
\* line 71 is reached for every entry
FieldRaises(field) ==
  \/ ~SupportsIn(field)
  \/ ~Subscriptable(field)
  \/ "key" \in KeysOf(field) /\ ~Hashable(field.v["key"])

\* the entries of rdmp_json[k] that the loop visits
Visited(rdmp_json, k) ==
  IF k \in KeysOf(rdmp_json) /\ Subscriptable(rdmp_json) /\ rdmp_json.v[k].t = "list"
  THEN {rdmp_json.v[k].v[i] : i \in DOMAIN rdmp_json.v[k].v}
  ELSE {}

\* an exception leaves validate_rdmp_schema: nothing in it catches one
Raises(rdmp_json) ==
  \/ ~SupportsIn(rdmp_json)
  \/ KeysOf(rdmp_json) \cap {"roles", "fields"} # {} /\ ~Subscriptable(rdmp_json)
  \/ \E role \in Visited(rdmp_json, "roles") : RoleRaises(role)
  \/ \E field \in Visited(rdmp_json, "fields") : FieldRaises(field)

\* What the validator sees of a value it does not raise on: membership of
\* keys, names and keys of entries, the entries of a list.  Anything that
\* is not a list has no entries; anything that is not a dict has the keys
\* that `in` finds.
PlainPerms(x) == [k \in KeysOf(x) |-> TRUE]
PlainRole(x) ==
  IF x.t = "dict"
  THEN [k \in DOMAIN x.v |-> IF k = "permissions" THEN PlainPerms(x.v[k]) ELSE x.v[k].v]
  ELSE <<>>
PlainValues(x) == IF x.t = "list" THEN Some([i \in DOMAIN x.v |-> x.v[i].v]) ELSE None
PlainField(x) ==
  [k \in DOMAIN x.v |-> IF k = "allowed_values" THEN PlainValues(x.v[k]) ELSE x.v[k].v]
PlainRoles(x) == IF x.t = "list" THEN [i \in DOMAIN x.v |-> PlainRole(x.v[i])] ELSE <<>>
PlainFields(x) == IF x.t = "list" THEN [i \in DOMAIN x.v |-> PlainField(x.v[i])] ELSE <<>>
Plain(x) ==
  IF x.t = "dict"
  THEN [k \in DOMAIN x.v |-> CASE k = "roles" -> PlainRoles(x.v[k])
                                [] k = "fields" -> PlainFields(x.v[k])
                                [] OTHER -> x.v[k].v]
  ELSE <<>>

\* a call of validate_rdmp_schema: it returns (ok, errors) or raises
validate_rdmp_schema_outcome(rdmp_json) ==
  IF Raises(rdmp_json)
  THEN [raised |-> TRUE, ok |-> FALSE, errors |-> <<>>]
  ELSE LET r == validate_rdmp_schema(Plain(rdmp_json))
       IN  [raised |-> FALSE, ok |-> r.ok, errors |-> r.errors]

\* ----------------------------------------------- values of sample fields
\* float(value) on a str: [sign] (digits [. [digits]] | . digits) [e [sign] digits],
\* read character by character.  The strings of the inputs hold no blank,
\* no underscore and none of the letters of "inf" and "nan" but "f".
Digits == {"0", "1", "2", "3", "4", "5", "6", "7", "8", "9"}
Signs == {"+", "-"}
FloatStep(q, c) ==
  CASE q = "start" /\ c \in Signs -> "sign"
    [] q \in {"start", "sign", "int"} /\ c \in Digits -> "int"
    [] q \in {"start", "sign"} /\ c = "." -> "dot"
    [] q = "int" /\ c = "." -> "frac"
    [] q \in {"dot", "frac"} /\ c \in Digits -> "frac"
    [] q \in {"int", "frac"} /\ c \in {"e", "E"} -> "exp"
    [] q = "exp" /\ c \in Signs -> "expsign"
    [] q \in {"exp", "expsign", "expint"} /\ c \in Digits -> "expint"
    [] OTHER -> "invalid"
RECURSIVE FloatRun(_, _, _)
FloatRun(chars, n, q) ==
  IF n > Len(chars) THEN q ELSE FloatRun(chars, n + 1, FloatStep(q, chars[n]))

\* float(value) returns: a str of the grammar, an int or a bool.  On None
\* or a list it raises TypeError, on another str ValueError.
ParsesAsFloat(value) ==
  CASE value.t = "str" -> FloatRun(value.v, 1, "start") \in {"int", "frac", "expint"}
    [] value.t \in {"int", "bool"} -> TRUE
    [] OTHER -> FALSE

\* a str value is spelled character by character; the allowed values of
\* the documents are one character long
Chars(s) == <<s>>
\* `value in allowed_values` on a list
Member(value, allowed_values) ==
  value.t = "str" /\ \E i \in DOMAIN allowed_values : Chars(allowed_values[i]) = value.v

ValueOk == [raised |-> FALSE, ok |-> TRUE, message |-> None]
ValueRejected(message) == [raised |-> FALSE, ok |-> FALSE, message |-> message]
ValueRaised == [raised |-> TRUE, ok |-> FALSE, message |-> None]

\* field_config.get("type") is None for a spec without a type: it equals
\* none of the three names
validate_field_value(field_config, value) ==
  LET field_type == Get(field_config, "type", "")
  IN  CASE field_type = "number" ->
             IF ParsesAsFloat(value) THEN ValueOk
             ELSE ValueRejected(<<"Value must be a number">>)
        [] field_type = "categorical" ->
             LET allowed_values == Get(field_config, "allowed_values", Some(<<>>))
             IN  IF allowed_values = None
                 THEN ValueRaised       \* `value not in None`: TypeError
                 ELSE IF ~Member(value, allowed_values[1])
                      THEN ValueRejected(<<"Value must be one of", allowed_values[1]>>)
                      ELSE ValueOk
        [] field_type = "date" ->
             IF value.t # "str" THEN ValueRejected(<<"Date must be a string">>) ELSE ValueOk
        [] OTHER -> ValueOk

\* variant: every declared field counts as required
check_sample_completeness_all_fields(sample, rdmp) ==
  LET fields == Get(rdmp.rdmp_json, "fields", <<>>)
      existing_field_keys == {sample.field_values[i].field_key : i \in DOMAIN sample.field_values}
      missing == SelectSeq([i \in DOMAIN fields |-> fields[i].key],
                           LAMBDA k : k \notin existing_field_keys)
  IN  [is_complete |-> Len(missing) = 0, missing_fields |-> missing,
       total_required |-> Len(fields), total_filled |-> Cardinality(existing_field_keys)]

\* variant: only the keys of required fields count as filled
check_sample_completeness_required_filled(sample, rdmp) ==
  LET required_fields == SelectSeq(Get(rdmp.rdmp_json, "fields", <<>>),
                                   LAMBDA f : Get(f, "required", FALSE))
      existing_field_keys == {sample.field_values[i].field_key : i \in DOMAIN sample.field_values}
      missing == SelectSeq([i \in DOMAIN required_fields |-> required_fields[i].key],
                           LAMBDA k : k \notin existing_field_keys)
  IN  [is_complete |-> Len(missing) = 0, missing_fields |-> missing,
       total_required |-> Len(required_fields),
       total_filled |-> Len(required_fields) - Len(missing)]

check_sample_completeness(sample, rdmp) ==
  LET rdmp_json == rdmp.rdmp_json
      required_fields == SelectSeq(Get(rdmp_json, "fields", <<>>),
                                   LAMBDA f : Get(f, "required", FALSE))
      existing_field_keys == {sample.field_values[i].field_key : i \in DOMAIN sample.field_values}
      missing == SelectSeq([i \in DOMAIN required_fields |-> required_fields[i].key],
                           LAMBDA k : k \notin existing_field_keys)
  IN  [is_complete |-> Len(missing) = 0,
       missing_fields |-> missing,
       total_required |-> Len(required_fields),
       total_filled |-> Cardinality(existing_field_keys)]

\* documents handed to the validator
TPerms(S) == JDict([k \in S |-> JBool(TRUE)])
RoleEntries ==
  {JDict([name |-> JStr("Lead"), permissions |-> TPerms(PermKeys)]),
   JDict([name |-> JStr("Guest"), permissions |-> TPerms(PermKeys)]),
   JDict([permissions |-> TPerms(PermKeys)]),
   JDict([name |-> JStr("Lead"),
          permissions |-> TPerms({"can_edit_metadata", "can_edit_paths"})]),
   JDict([permissions |-> TPerms({"can_manage_rdmp"})]),
   JDict([name |-> JStr("Guest")])}
TAge == JDict([key |-> JStr("age"), label |-> JStr("Age"), type |-> JStr("number"),
               required |-> JBool(TRUE)])
FieldEntries ==
  {TAge,
   JDict([key |-> JStr("sex"), label |-> JStr("Sex"), type |-> JStr("categorical"),
          allowed_values |-> JList(<<JStr("f"), JStr("m")>>), visibility |-> JStr("private")]),
   JDict([key |-> JStr("grade"), label |-> JStr("Grade"), type |-> JStr("categorical")]),
   JDict([label |-> JStr("Anonymous"), type |-> JStr("string")]),
   JDict([key |-> JStr("age")]),
   JDict([key |-> JStr("scan"), label |-> JStr("Scan"), type |-> JStr("blob")]),
   JDict([key |-> JStr("site"), label |-> JStr("Site"), type |-> JStr("string"),
          visibility |-> JStr("secret")])}
Lists(S) == UNION {[1..n -> S] : n \in 0..MaxEntries}
TBody(roles, fields) == JDict([roles |-> roles, fields |-> fields])
TLead == JDict([name |-> JStr("Lead"), permissions |-> TPerms(PermKeys)])
FewRoleLists == {<<TLead>>, <<JDict([permissions |-> TPerms({"can_manage_rdmp"})])>>}
FewFieldLists == {<<TAge>>, <<JDict([key |-> JStr("scan")])>>}
Documents ==
  {TBody(JList(rs), JList(fs)) : rs \in Lists(RoleEntries), fs \in FewFieldLists}
  \cup {TBody(JList(rs), JList(fs)) : rs \in FewRoleLists, fs \in Lists(FieldEntries)}
  \cup {JDict(<<>>), JDict([roles |-> JList(<<TLead>>)]), JDict([fields |-> JList(<<TAge>>)])}
\* values of another shape than a document's
WrongShapes ==
  {JNull, JInt(5), JList(<<>>),
   TBody(JDict(<<>>), JStr("age")),
   TBody(JList(<<JInt(5)>>), JList(<<TAge>>)),
   TBody(JList(<<JNull>>), JList(<<TAge>>)),
   TBody(JList(<<JStr("Lead")>>), JList(<<TAge>>)),
   TBody(JList(<<JDict([name |-> JStr("Lead"), permissions |-> JNull])>>), JList(<<TAge>>)),
   TBody(JList(<<JDict([name |-> JStr("Lead"),
                        permissions |-> JList([i \in 1..4 |-> JStr(required_perms[i])])])>>),
         JList(<<TAge>>)),
   TBody(JList(<<JDict([name |-> JList(<<>>), permissions |-> TPerms(PermKeys)])>>),
         JList(<<TAge>>)),
   TBody(JList(<<TLead>>), JList(<<JStr("age")>>)),
   TBody(JList(<<TLead>>), JList(<<JInt(5)>>)),
   TBody(JList(<<TLead>>), JList(<<JDict([key |-> JDict(<<>>), label |-> JStr("Age"),
                                          type |-> JStr("number")])>>))}

\* ------------------------------------------------------- request bodies
Lead == [name |-> "Lead", permissions |-> Grant(PermKeys)]
Guest == [name |-> "Guest", permissions |-> Grant({})]
Admin == [name |-> "Admin", permissions |-> Grant(PermKeys)]
GuestEditor == [name |-> "Guest", permissions |-> Grant({"can_edit_metadata"})]
AgeField == [key |-> "age", label |-> "Age", type |-> "number", required |-> TRUE]
SexField == [key |-> "sex", label |-> "Sex", type |-> "categorical", required |-> TRUE,
             allowed_values |-> Some(<<"f", "m">>), visibility |-> "private"]

\* optional attributes left out by the client
RawInitial == [roles |-> <<Lead, Guest>>, fields |-> <<AgeField>>]
\* "Lead" renamed to "Admin"; every attribute spelled out
RawRenamed == [roles |-> <<Admin, GuestEditor>>, fields |-> <<SexField>>,
               ingestion_rules |-> [file_patterns |-> <<"*.fastq">>, prompts |-> <<>>]]
RawDupRole == [roles |-> <<Lead, Lead>>, fields |-> <<AgeField>>]
RawMissingPerm == [roles |-> <<[name |-> "Lead", permissions |-> [can_edit_metadata |-> TRUE]]>>,
                   fields |-> <<AgeField>>]
RawNoName == [roles |-> <<[permissions |-> Grant(PermKeys)]>>, fields |-> <<AgeField>>]

\* categorical fields: allowed_values given, left out, null, empty
GradeField == [key |-> "grade", label |-> "Grade", type |-> "categorical",
               allowed_values |-> Some(<<"A", "B">>)]
GradeFieldNoValues == [key |-> "grade", label |-> "Grade", type |-> "categorical"]
GradeFieldNull == [key |-> "grade", label |-> "Grade", type |-> "categorical",
                   allowed_values |-> None]
GradeFieldEmpty == [key |-> "grade", label |-> "Grade", type |-> "categorical",
                    allowed_values |-> Some(<<>>)]
RawGraded(field) == [roles |-> <<Lead>>, fields |-> <<AgeField, field>>]
CategoricalBodies == {RawGraded(f) : f \in {GradeField, GradeFieldNoValues,
                                            GradeFieldNull, GradeFieldEmpty}}

\* documents whose fields samples are checked against
BirthField == [key |-> "born", label |-> "Born", type |-> "date"]
NoteField == [key |-> "note", label |-> "Note", type |-> "string", required |-> TRUE]
RawFields(fields) == [roles |-> <<Lead>>, fields |-> fields]
SampleBodies ==
  {RawFields(fields) : fields \in {<<AgeField, SexField>>, <<SexField, AgeField>>,
                                   <<AgeField, GradeField>>, <<GradeFieldNull, BirthField>>,
                                   <<NoteField, GradeFieldNoValues, AgeField>>,
                                   <<BirthField>>}}
\* the rows a handler commits for them
CommittedDocuments ==
  {[rdmp_json |-> ModelDump(raw)] : raw \in {b \in SampleBodies :
                                               validate_rdmp_schema(ModelDump(b)).ok}}
\* field specs: those of the committed documents, and specs of documents
\* stored before the schema had the attribute (no type, an unknown type,
\* no allowed_values)
FieldSpecs ==
  UNION {Range(d.rdmp_json.fields) : d \in CommittedDocuments}
  \cup {[key |-> "note", label |-> "Note"],
        [key |-> "scan", label |-> "Scan", type |-> "blob"],
        GradeFieldNoValues}
ValueChars == {"1", ".", "-", "e", "A"}
Values ==
  {JStr(chars) : chars \in UNION {[1..n -> ValueChars] : n \in 0..MaxChars}}
  \cup {JInt(5), JBool(TRUE), JNull, JList(<<>>)}
SampleKeys == {"age", "sex", "grade", "batch"}
Samples ==
  {[field_values |-> [i \in DOMAIN keys |-> [field_key |-> keys[i]]]] :
     keys \in UNION {[1..n -> SampleKeys] : n \in 0..MaxValues}}

RawBodies == {RawInitial, RawRenamed, RawDupRole, RawMissingPerm, RawNoName}
TemplateBodies == {RawInitial, RawDupRole, RawNoName}
RoleNames == {"Lead", "Guest"}

\* ------------------------------------------------------------------ state
VARIABLES
  rdmp_templates,          \* table rdmp_templates: rows [id, name]
  rdmp_template_versions,  \* table rdmp_template_versions
  rdmp_versions,           \* table rdmp_versions
  memberships,             \* table memberships: rows [project_id, user_id, role_name]
  migrated,                \* revision 427a6cc9186d applied
  pc,                      \* per request handler: "idle", "insert", "done"
  req,                     \* per request handler: the request being served
  next_version_int,        \* per request handler: local of the two append handlers
  resp,                    \* per request handler: the response
  rpc,                     \* get_user_permissions call: "idle", "rdmp", "done"
  rreq,                    \* its arguments
  membership,              \* its local: the membership read (None or Some(role_name))
  rresult,                 \* its return value
  ratomic,                 \* get_user_permissions of each store state the call lived through
  releases,                \* table releases
  call,                    \* a call of one of the pure service functions, with its outcome
  audit_logs,              \* table audit_logs
  projects,                \* table projects: the ids of its rows
  supervisor_client,       \* the ingest helper's SupervisorClient and its _request in flight
  handler                  \* an IngestEventHandler, the observer's queue and the watched files

vars == <<rdmp_templates, rdmp_template_versions, rdmp_versions, memberships, migrated,
          pc, req, next_version_int, resp, rpc, rreq, membership, rresult, ratomic,
          releases, call, audit_logs, projects, supervisor_client, handler>>
store == <<rdmp_templates, rdmp_template_versions, rdmp_versions, memberships, migrated>>
resolver == <<rpc, rreq, membership, rresult, ratomic>>

\* what the RDMP handlers and the resolver never touch
elsewhere == <<releases, call, audit_logs, projects, supervisor_client, handler>>

NoReq == [op |-> "idle"]
NoCall == [fn |-> "none"]
NoResp == [status |-> "none", errors |-> <<>>, attempts |-> 0]

\* ------------------------------------------------------------ store reads
\* .order_by(version_int.desc()).all()
RECURSIVE OrderByVersionDesc(_)
OrderByVersionDesc(rows) ==
  IF rows = {} THEN <<>>
  ELSE LET top == CHOOSE r \in rows : \A q \in rows : q.version_int <= r.version_int
       IN  <<top>> \o OrderByVersionDesc(rows \ {top})

\* .first()
First(seq) == IF Len(seq) = 0 THEN None ELSE Some(seq[1])

ProjectRows(table, project_id) == {r \in table : r.project_id = project_id}
TemplateRows(table, template_id) == {r \in table : r.template_id = template_id}

\* variant: only versions with status ACTIVE are candidates
get_current_rdmp_active(table, project_id) ==
  First(OrderByVersionDesc({r \in ProjectRows(table, project_id) : r.status = Some("ACTIVE")}))

\* variant: ascending order, the oldest version first
get_current_rdmp_oldest(table, project_id) ==
  LET seq == OrderByVersionDesc(ProjectRows(table, project_id))
  IN  IF Len(seq) = 0 THEN None ELSE Some(seq[Len(seq)])

\* services/rdmp_service.py get_current_rdmp
get_current_rdmp(table, project_id) ==
  First(OrderByVersionDesc(ProjectRows(table, project_id)))

\* api/rdmp.py: the latest_version query of create_project_rdmp_version
latest_project_version(table, project_id) ==
  First(OrderByVersionDesc(ProjectRows(table, project_id)))

\* api/rdmp.py: the latest_version query of create_template_version
latest_template_version(table, template_id) ==
  First(OrderByVersionDesc(TemplateRows(table, template_id)))

\* variant: the query without its filter
list_project_rdmp_versions_unfiltered(table, project_id) ==
  OrderByVersionDesc(table)

\* api/rdmp.py list_project_rdmp_versions: filter, order_by desc, all
list_project_rdmp_versions(table, project_id) ==
  OrderByVersionDesc(ProjectRows(table, project_id))

\* api/rdmp.py list_template_versions: filter, order_by desc, all
list_template_versions(table, template_id) ==
  OrderByVersionDesc(TemplateRows(table, template_id))

\* variant: the increment is off by one
NextVersionIntSkip(latest_version) ==
  IF latest_version = None THEN 1 ELSE latest_version[1].version_int + 2

\* next_version_int = (latest_version.version_int + 1) if latest_version else 1
NextVersionInt(latest_version) ==
  IF latest_version = None THEN 1 ELSE latest_version[1].version_int + 1

\* autoincrement primary key (rows are never deleted)
NextId(table) == Cardinality(table) + 1

\* variant: the table has no unique constraint
ViolatesUniqueOff(rows, version_int) == FALSE

\* UniqueConstraint("project_id", "version_int") / ("template_id", "version_int"),
\* rows being those of the scope
ViolatesUnique(rows, version_int) == \E r \in rows : r.version_int = version_int

\* RDMPTemplate.name unique=True
ViolatesUniqueName(table, name) == \E t \in table : t.name = name

\* SupervisorClient.__init__: no token yet. issued counts the tokens the
\* supervisor has handed out, calls the _request calls made; pc, attempt,
\* cached, trace and outcome belong to the _request in flight.
NewSupervisorClient ==
  [_token |-> None, issued |-> 0, calls |-> 0, pc |-> "idle", attempt |-> 0,
   cached |-> None, trace |-> <<>>, outcome |-> "none"]

\* IngestEventHandler.__init__ and the observer it is scheduled on: nothing
\* processed, no event queued, no file in the watched folder
NewIngestEventHandler ==
  [processed_files |-> {}, queue |-> <<>>, emitted |-> 0, files |-> {},
   pc |-> "idle", event |-> None, file_path |-> None, runs |-> <<>>]

Init ==
  /\ rdmp_templates = {}
  /\ rdmp_template_versions = {}
  /\ rdmp_versions = {}
  /\ memberships = {}
  /\ migrated = FALSE
  /\ pc = [p \in Procs |-> "idle"]
  /\ req = [p \in Procs |-> NoReq]
  /\ next_version_int = [p \in Procs |-> 0]
  /\ resp = [p \in Procs |-> NoResp]
  /\ rpc = "idle"
  /\ rreq = NoReq
  /\ membership = None
  /\ rresult = [raised |-> FALSE, perms |-> AllFalse]
  /\ ratomic = {}
  /\ releases = {}
  /\ audit_logs = {}
  /\ projects = ProjectIds
  /\ call = NoCall
  /\ supervisor_client = NewSupervisorClient
  /\ handler = NewIngestEventHandler

\* --------------------------------- services/permission_service.py, reads
\* db.query(Membership).filter(project_id, user_id).first()
LookupMembership(table, project_id, user_id) ==
  LET rows == {m \in table : m.project_id = project_id /\ m.user_id = user_id}
  IN  IF rows = {} THEN None ELSE Some((CHOOSE m \in rows : TRUE).role_name)

\* next((r for r in roles if r["name"] == role_name), None); r["name"] of a
\* role without a name raises KeyError.
RECURSIVE FindRole(_, _, _)
FindRole(roles, role_name, n) ==
  IF n > Len(roles) THEN <<"none">>
  ELSE IF "name" \notin DOMAIN roles[n] THEN <<"raise">>
  ELSE IF roles[n].name = role_name THEN <<"role", roles[n]>>
  ELSE FindRole(roles, role_name, n + 1)

Returned(perms) == [raised |-> FALSE, perms |-> perms]
Raised == [raised |-> TRUE, perms |-> <<>>]

\* variant: a membership whose role is not in the RDMP is granted everything
RolePermissionsAllowUnknown(role_name, rdmp) ==
  IF rdmp = None THEN Returned(AllFalse)
  ELSE LET found == FindRole(Get(rdmp[1].rdmp_json, "roles", <<>>), role_name, 1)
       IN  CASE found[1] = "raise" -> Raised
             [] found[1] = "none" -> Returned(Grant(PermKeys))
             [] OTHER -> Returned(Get(found[2], "permissions", <<>>))

\* get_user_permissions from "Find role in RDMP" on, given the membership
\* and the RDMP version read
RolePermissions(role_name, rdmp) ==
  IF rdmp = None THEN Returned(AllFalse)
  ELSE LET found == FindRole(Get(rdmp[1].rdmp_json, "roles", <<>>), role_name, 1)
       IN  CASE found[1] = "raise" -> Raised
             [] found[1] = "none" -> Returned(AllFalse)
             [] OTHER -> Returned(Get(found[2], "permissions", <<>>))

\* get_user_permissions evaluated on one store state
get_user_permissions_atomic(ms, rv, project_id, user_id) ==
  LET m == LookupMembership(ms, project_id, user_id)
  IN  IF m = None THEN Returned(AllFalse)
      ELSE RolePermissions(m[1], get_current_rdmp(rv, project_id))

\* variant: a permission the resolved map does not name is granted
check_permission_granting_unnamed(ms, rv, project_id, user_id, permission_name) ==
  LET permissions == get_user_permissions_atomic(ms, rv, project_id, user_id)
  IN  IF permissions.raised THEN [raised |-> TRUE, value |-> FALSE]
      ELSE [raised |-> FALSE, value |-> Get(permissions.perms, permission_name, TRUE)]

\* check_permission: permissions.get(permission_name, False) of the resolved
\* map; an exception of the resolver passes through
check_permission(ms, rv, project_id, user_id, permission_name) ==
  LET permissions == get_user_permissions_atomic(ms, rv, project_id, user_id)
  IN  IF permissions.raised THEN [raised |-> TRUE, value |-> FALSE]
      ELSE [raised |-> FALSE, value |-> Get(permissions.perms, permission_name, FALSE)]

\* Python truth of a keyword argument: absent (None) and 0 are false
Truthy(arg) == arg # None /\ arg # Some(0)

HTTPException(status_code, detail) ==
  [ran |-> FALSE, status_code |-> status_code, detail |-> detail]

\* the wrapper of require_project_permission(permission_name) applied to the
\* keyword arguments of a request: the wrapped handler runs (ran) or the
\* request ends with an HTTPException or with the resolver's exception
require_project_permission(permission_name, kwargs, ms, rv) ==
  IF ~Truthy(kwargs.project_id)
  THEN HTTPException(400, "Project ID not provided")
  ELSE IF ~Truthy(kwargs.current_user) \/ ~Truthy(kwargs.db)
  THEN HTTPException(500, "Missing required dependencies")
  ELSE LET checked == check_permission(ms, rv, kwargs.project_id[1],
                                       kwargs.current_user[1], permission_name)
       IN  IF checked.raised THEN [ran |-> FALSE, status_code |-> 0, detail |-> "KeyError"]
           ELSE IF checked.value # TRUE
           THEN HTTPException(403, "Permission denied")
           ELSE [ran |-> TRUE, status_code |-> 200, detail |-> ""]

\* store states the call in flight has lived through
Observe(ms, rv) ==
  IF rpc = "rdmp"
  THEN ratomic \cup {get_user_permissions_atomic(ms, rv, rreq.project_id, rreq.user_id)}
  ELSE ratomic

\* ------------------------------------------------- api/rdmp.py, handlers
\* The request body reaches a handler parsed into RDMPJSON; each query and
\* each commit is one step on the committed store (the session opens no
\* snapshot of its own), so handlers interleave between their statements.
Respond(p, r) ==
  /\ pc' = [pc EXCEPT ![p] = "done"]
  /\ resp' = [resp EXCEPT ![p] = r]
  /\ req' = [req EXCEPT ![p] = NoReq]

Rejected(status, errors) == [status |-> status, errors |-> errors, attempts |-> 0]
Created == [status |-> "201_CREATED", errors |-> <<>>, attempts |-> 1]
IntegrityError == [status |-> "IntegrityError", errors |-> <<>>, attempts |-> 1]

\* variant: the template row committed at the flush, its version 1 lost
create_template_committed_at_flush(p, name, raw, user) ==
  /\ UNCHANGED elsewhere
  /\ pc[p] = "idle"
  /\ ParsesAsRDMPJSON(raw)
  /\ UNCHANGED <<rdmp_versions, memberships, migrated, next_version_int, resolver>>
  /\ LET checked == validate_rdmp_schema(ModelDump(raw))
         template == [id |-> NextId(rdmp_templates), name |-> name]
     IN  IF ~checked.ok
         THEN /\ Respond(p, Rejected("400_BAD_REQUEST", checked.errors))
              /\ UNCHANGED <<rdmp_templates, rdmp_template_versions>>
         ELSE IF ViolatesUniqueName(rdmp_templates, name)
         THEN /\ Respond(p, IntegrityError)
              /\ UNCHANGED <<rdmp_templates, rdmp_template_versions>>
         ELSE /\ rdmp_templates' = rdmp_templates \cup {template}
              /\ UNCHANGED rdmp_template_versions
              /\ Respond(p, IntegrityError)

\* POST /templates: template row and its version 1 in one transaction
create_template(p, name, raw, user) ==
  /\ UNCHANGED elsewhere
  /\ pc[p] = "idle"
  /\ ParsesAsRDMPJSON(raw)
  /\ UNCHANGED <<rdmp_versions, memberships, migrated, next_version_int, resolver>>
  /\ LET checked == validate_rdmp_schema(ModelDump(raw))
         template == [id |-> NextId(rdmp_templates), name |-> name]
         version == [id |-> NextId(rdmp_template_versions), template_id |-> template.id,
                     version_int |-> 1, created_by |-> user,
                     template_json |-> ModelDump(raw)]
     IN  IF ~checked.ok
         THEN /\ Respond(p, Rejected("400_BAD_REQUEST", checked.errors))
              /\ UNCHANGED <<rdmp_templates, rdmp_template_versions>>
         ELSE IF ViolatesUniqueName(rdmp_templates, name)
         THEN /\ Respond(p, IntegrityError)
              /\ UNCHANGED <<rdmp_templates, rdmp_template_versions>>
         ELSE /\ rdmp_templates' = rdmp_templates \cup {template}
              /\ rdmp_template_versions' = rdmp_template_versions \cup {version}
              /\ Respond(p, Created)

\* POST /templates/{id}/versions up to the latest_version query
create_template_version_begin(p, template_id, raw, user) ==
  /\ UNCHANGED elsewhere
  /\ pc[p] = "idle"
  /\ ParsesAsRDMPJSON(raw)
  /\ UNCHANGED <<store, resolver>>
  /\ IF ~(\E t \in rdmp_templates : t.id = template_id)
     THEN Respond(p, Rejected("404_NOT_FOUND", <<>>)) /\ UNCHANGED next_version_int
     ELSE LET checked == validate_rdmp_schema(ModelDump(raw))
              latest_version == latest_template_version(rdmp_template_versions, template_id)
          IN  IF ~checked.ok
              THEN Respond(p, Rejected("400_BAD_REQUEST", checked.errors)) /\ UNCHANGED next_version_int
              ELSE /\ Cardinality(TemplateRows(rdmp_template_versions, template_id)) < MaxVersion
                   /\ req' = [req EXCEPT ![p] = [op |-> "create_template_version",
                                                 target |-> template_id, raw |-> raw, user |-> user]]
                   /\ next_version_int' = [next_version_int EXCEPT ![p] = NextVersionInt(latest_version)]
                   /\ pc' = [pc EXCEPT ![p] = "insert"]
                   /\ UNCHANGED resp

\* ... db.add(version); db.commit(); db.refresh(version)
create_template_version_commit(p) ==
  /\ UNCHANGED elsewhere
  /\ pc[p] = "insert"
  /\ req[p].op = "create_template_version"
  /\ UNCHANGED <<rdmp_templates, rdmp_versions, memberships, migrated, next_version_int, resolver>>
  /\ LET version == [id |-> NextId(rdmp_template_versions), template_id |-> req[p].target,
                     version_int |-> next_version_int[p], created_by |-> req[p].user,
                     template_json |-> ModelDump(req[p].raw)]
     IN  IF ViolatesUnique(TemplateRows(rdmp_template_versions, req[p].target), version.version_int)
         THEN Respond(p, IntegrityError) /\ UNCHANGED rdmp_template_versions
         ELSE /\ rdmp_template_versions' = rdmp_template_versions \cup {version}
              /\ Respond(p, Created)

\* POST /projects/{id}/rdmp up to the latest_version query
create_project_rdmp_version_begin(p, project_id, raw, user) ==
  /\ UNCHANGED elsewhere
  /\ pc[p] = "idle"
  /\ ParsesAsRDMPJSON(raw)
  /\ UNCHANGED <<store, resolver>>
  /\ LET checked == validate_rdmp_schema(ModelDump(raw))
         latest_version == latest_project_version(rdmp_versions, project_id)
     IN  IF ~checked.ok
         THEN Respond(p, Rejected("400_BAD_REQUEST", checked.errors)) /\ UNCHANGED next_version_int
         ELSE /\ Cardinality(ProjectRows(rdmp_versions, project_id)) < MaxVersion
              /\ req' = [req EXCEPT ![p] = [op |-> "create_project_rdmp_version",
                                            target |-> project_id, raw |-> raw, user |-> user]]
              /\ next_version_int' = [next_version_int EXCEPT ![p] = NextVersionInt(latest_version)]
              /\ pc' = [pc EXCEPT ![p] = "insert"]
              /\ UNCHANGED resp

\* ForeignKey("projects.id"): the insert of a row whose project is not in
\* projects is refused when the connection enforces foreign keys; whether it
\* does is the database's setting, which no code under src/ makes
ViolatesForeignKey(parents, project_id, foreign_keys) ==
  foreign_keys /\ project_id \notin parents

\* ... db.add(version); db.commit(); db.refresh(version)
create_project_rdmp_version_commit(p) ==
  /\ UNCHANGED elsewhere
  /\ pc[p] = "insert"
  /\ req[p].op = "create_project_rdmp_version"
  /\ UNCHANGED <<rdmp_templates, rdmp_template_versions, memberships, migrated,
                 next_version_int, rpc, rreq, membership, rresult>>
  /\ LET version == [id |-> NextId(rdmp_versions), project_id |-> req[p].target,
                     version_int |-> next_version_int[p], created_by |-> req[p].user,
                     rdmp_json |-> ModelDump(req[p].raw), provenance_json |-> None,
                     status |-> None, title |-> None]
     IN  \E foreign_keys \in BOOLEAN :
           IF \/ ViolatesUnique(ProjectRows(rdmp_versions, req[p].target), version.version_int)
              \/ ViolatesForeignKey(projects, req[p].target, foreign_keys)
           THEN Respond(p, IntegrityError) /\ UNCHANGED <<rdmp_versions, ratomic>>
           ELSE /\ rdmp_versions' = rdmp_versions \cup {version}
                /\ ratomic' = Observe(memberships, rdmp_versions')
                /\ Respond(p, Created)

\* the client has its response; the handler serves the next request
handler_return(p) ==
  /\ UNCHANGED elsewhere
  /\ pc[p] = "done"
  /\ pc' = [pc EXCEPT ![p] = "idle"]
  /\ resp' = [resp EXCEPT ![p] = NoResp]
  /\ UNCHANGED req
  /\ next_version_int' = [next_version_int EXCEPT ![p] = 0]
  /\ UNCHANGED <<store, resolver>>

\* alembic revision 427a6cc9186d, the two UPDATE statements
upgrade ==
  /\ UNCHANGED elsewhere
  /\ ~migrated
  /\ migrated' = TRUE
  /\ rdmp_versions' = {[r EXCEPT !.status = IF r.status = None THEN Some("ACTIVE") ELSE r.status,
                                 !.title = IF r.title = None THEN Some("Imported RDMP") ELSE r.title]
                       : r \in rdmp_versions}
  /\ ratomic' = Observe(memberships, rdmp_versions')
  /\ UNCHANGED <<rdmp_templates, rdmp_template_versions, memberships, pc, req,
                 next_version_int, resp, rpc, rreq, membership, rresult>>

\* ------------------------------------------ Membership collaborator (spec)
\* create the membership of (project, user) or change its role_name
set_membership(project_id, user_id, role_name) ==
  /\ UNCHANGED elsewhere
  /\ LookupMembership(memberships, project_id, user_id) # Some(role_name)
  /\ memberships' = {m \in memberships : ~(m.project_id = project_id /\ m.user_id = user_id)}
                    \cup {[project_id |-> project_id, user_id |-> user_id, role_name |-> role_name]}
  /\ ratomic' = Observe(memberships', rdmp_versions)
  /\ UNCHANGED <<rdmp_templates, rdmp_template_versions, rdmp_versions, migrated, pc, req,
                 next_version_int, resp, rpc, rreq, membership, rresult>>

remove_membership(project_id, user_id) ==
  /\ UNCHANGED elsewhere
  /\ LookupMembership(memberships, project_id, user_id) # None
  /\ memberships' = {m \in memberships : ~(m.project_id = project_id /\ m.user_id = user_id)}
  /\ ratomic' = Observe(memberships', rdmp_versions)
  /\ UNCHANGED <<rdmp_templates, rdmp_template_versions, rdmp_versions, migrated, pc, req,
                 next_version_int, resp, rpc, rreq, membership, rresult>>

\* -------------------------- services/permission_service.py, the resolver
\* The membership query and the RDMP query are two statements; each reads the
\* store as committed when it runs.
\* get_user_permissions up to "if not membership"
get_user_permissions_membership(project_id, user_id) ==
  /\ UNCHANGED elsewhere
  /\ rpc = "idle"
  /\ rreq' = [op |-> "get_user_permissions", project_id |-> project_id, user_id |-> user_id]
  /\ membership' = LookupMembership(memberships, project_id, user_id)
  /\ ratomic' = {get_user_permissions_atomic(memberships, rdmp_versions, project_id, user_id)}
  /\ IF membership' = None
     THEN rpc' = "done" /\ rresult' = Returned(AllFalse)
     ELSE rpc' = "rdmp" /\ UNCHANGED rresult
  /\ UNCHANGED <<store, pc, req, next_version_int, resp>>

\* ... from "Get current RDMP" to the return
get_user_permissions_rdmp ==
  /\ UNCHANGED elsewhere
  /\ rpc = "rdmp"
  /\ rresult' = RolePermissions(membership[1], get_current_rdmp(rdmp_versions, rreq.project_id))
  /\ rpc' = "done"
  /\ UNCHANGED <<store, pc, req, next_version_int, resp, rreq, membership, ratomic>>

get_user_permissions_return ==
  /\ UNCHANGED elsewhere
  /\ rpc = "done"
  /\ rpc' = "idle"
  /\ rreq' = NoReq
  /\ membership' = None
  /\ rresult' = Returned(AllFalse)
  /\ ratomic' = {}
  /\ UNCHANGED <<store, pc, req, next_version_int, resp>>

\* ---------------------------------------------------------- specifications
\* concurrent appends to project scopes
Next ==
  \/ \E p \in Procs, pr \in Projects, raw \in RawBodies, u \in Users :
       create_project_rdmp_version_begin(p, pr, raw, u)
  \/ \E p \in Procs : create_project_rdmp_version_commit(p)
  \/ \E p \in Procs : handler_return(p)

Spec == Init /\ [][Next]_vars

\* ------------------------------------------------------------- releases
\* variant: the table has no constraint on (project_id, release_tag)
ViolatesUniqueTagOff(table, project_id, release_tag) == FALSE

\* UniqueConstraint("project_id", "release_tag", name="uq_project_release")
ViolatesUniqueTag(table, project_id, release_tag) ==
  \E r \in table : r.project_id = project_id /\ r.release_tag = release_tag

\* ------------------------------------------------------------ audit log
\* INTEGER PRIMARY KEY of a table that loses rows: one more than the largest
NextRowId(table) ==
  IF table = {} THEN 1 ELSE (CHOOSE i \in {r.id : r \in table} : \A r \in table : r.id <= i) + 1

\* AuditRecorder.record: pure append of one row of audit_logs
Recorded(table, project_id, actor, action_type, target_type, target_id, before, after) ==
  table \cup {[id |-> NextRowId(table), project_id |-> project_id, actor_user_id |-> actor,
               action_type |-> action_type, target_type |-> target_type,
               target_id |-> target_id, before_json |-> before, after_json |-> after]}

\* ------------------------------------------------------------- releases
\* variant: any RDMP version will do, whichever project it belongs to
KnownRDMPVersionAnyProject(versions, project_id, rdmp_version_id) ==
  \E v \in versions : v.id = rdmp_version_id

\* "rdmp_version_id must reference an existing version for this project's scope"
KnownRDMPVersion(versions, project_id, rdmp_version_id) ==
  \E v \in versions : v.id = rdmp_version_id /\ v.project_id = project_id

\* variant: any release will do as the parent, whichever project it belongs to
KnownParentReleaseAnyProject(table, project_id, parent_release_id) ==
  \E r \in table : r.id = parent_release_id

\* "it must reference an existing release of the same project"
KnownParentRelease(table, project_id, parent_release_id) ==
  \E r \in table : r.id = parent_release_id /\ r.project_id = project_id

\* a failure of ReleaseManager.create names the request it refuses and the
\* reference it could not follow
Refused(status, project_id, tag, reference) ==
  [status |-> status,
   errors |-> <<[project_id |-> project_id, release_tag |-> tag,
                 reference |-> reference]>>,
   attempts |-> 1]

\* ReleaseManager.create up to its last read: the three preconditions
create_release_begin(p, project_id, tag, rdmp_version_id, parent_release_id, author) ==
  /\ pc[p] = "idle"
  /\ UNCHANGED <<store, resolver, next_version_int, releases, call, audit_logs, projects, supervisor_client, handler>>
  /\ IF \E r \in releases : r.project_id = project_id /\ r.release_tag = tag
     THEN Respond(p, Refused("DuplicateTag", project_id, tag, None))
     ELSE IF ~KnownRDMPVersion(rdmp_versions, project_id, rdmp_version_id)
     THEN Respond(p, Refused("UnknownRDMPVersion", project_id, tag, Some(rdmp_version_id)))
     ELSE IF /\ parent_release_id # None
             /\ ~KnownParentRelease(releases, project_id, parent_release_id[1])
     THEN Respond(p, Refused("UnknownParentRelease", project_id, tag, parent_release_id))
     ELSE /\ req' = [req EXCEPT ![p] = [op |-> "create_release", target |-> project_id,
                                        tag |-> tag, rdmp_version_id |-> rdmp_version_id,
                                        parent_release_id |-> parent_release_id,
                                        user |-> author]]
          /\ pc' = [pc EXCEPT ![p] = "insert"]
          /\ UNCHANGED resp

\* ... snapshot_builder, insert of the row, commit
create_release_commit(p) ==
  /\ pc[p] = "insert"
  /\ req[p].op = "create_release"
  /\ UNCHANGED <<store, resolver, next_version_int, call, projects, supervisor_client, handler>>
  /\ LET release == [id |-> NextId(releases), project_id |-> req[p].target,
                     release_tag |-> req[p].tag, created_by |-> req[p].user,
                     rdmp_version_id |-> req[p].rdmp_version_id,
                     parent_release_id |-> req[p].parent_release_id,
                     snapshot_json |-> [project_id |-> req[p].target,
                                        rdmp_version_id |-> req[p].rdmp_version_id]]
     IN  IF ViolatesUniqueTag(releases, release.project_id, release.release_tag)
         THEN /\ Respond(p, Refused("DuplicateTag", release.project_id, release.release_tag, None))
              /\ UNCHANGED <<releases, audit_logs>>
         ELSE /\ releases' = releases \cup {release}
              /\ audit_logs' = Recorded(audit_logs, release.project_id, release.created_by,
                                        "CREATE", "Release", release.id, None,
                                        Some(release.snapshot_json))
              /\ Respond(p, Created)

\* variant: the relationship without remote_side, which follows the link
\* from the parent to a release that corrects it
parent_release_to_correction(table, release) ==
  LET found == {q \in table : q.parent_release_id = Some(release.id)}
  IN  IF found = {} THEN None ELSE Some(CHOOSE q \in found : TRUE)

\* relationship("Release", remote_side=[id]): the row parent_release_id names
parent_release(table, release) ==
  LET found == {q \in table : Some(q.id) = release.parent_release_id}
  IN  IF found = {} THEN None ELSE Some(CHOOSE q \in found : TRUE)

\* the correction chain of a release, read by walking the parent links, at
\* most steps of them
RECURSIVE Walk(_, _, _)
Walk(table, release, steps) ==
  LET parent == parent_release(table, release)
  IN  IF steps = 0 \/ parent = None
      THEN <<release>>
      ELSE <<release>> \o Walk(table, parent[1], steps - 1)

\* ------------------------------------------- audit log and project rows
\* a collaborator reports one change of a project that exists
record(project_id, actor, action_type, target_type, target_id, before, after) ==
  /\ project_id \in projects
  /\ audit_logs' = Recorded(audit_logs, project_id, actor, action_type, target_type,
                            target_id, before, after)
  /\ UNCHANGED <<store, resolver, pc, req, next_version_int, resp, releases, call, projects, supervisor_client, handler>>

\* ForeignKey("projects.id", ondelete="CASCADE"): the rows that are left of a
\* table when the row of the project is deleted
OnDeleteCascade(table, project_id) == {r \in table : r.project_id # project_id}

\* DELETE of a row of projects; the database follows the foreign keys of the
\* other tables when the connection enforces them
delete_project(project_id, foreign_keys) ==
  /\ project_id \in projects
  /\ projects' = projects \ {project_id}
  /\ IF foreign_keys
     THEN /\ audit_logs' = OnDeleteCascade(audit_logs, project_id)
          /\ releases' = OnDeleteCascade(releases, project_id)
          /\ rdmp_versions' = OnDeleteCascade(rdmp_versions, project_id)
          /\ memberships' = OnDeleteCascade(memberships, project_id)
     ELSE UNCHANGED <<audit_logs, releases, rdmp_versions, memberships>>
  /\ ratomic' = Observe(memberships', rdmp_versions')
  /\ UNCHANGED <<rdmp_templates, rdmp_template_versions, migrated, pc, req,
                 next_version_int, resp, rpc, rreq, membership, rresult, call, supervisor_client, handler>>

\* ------------------------------- ingest helper: names of a watcher config
\* what the supervisor answers to get_projects() and get_storage_roots(id)
Answer(rows) == [ok |-> TRUE, rows |-> rows]
Failure == [ok |-> FALSE, rows |-> <<>>]

\* a call of the API as the client sees it
GetProjects == [api |-> "get_projects", project_id |-> None]
GetStorageRoots(project_id) == [api |-> "get_storage_roots", project_id |-> Some(project_id)]

\* [e for e in rows if e["name"] == name]
Matching(rows, name) == SelectSeq(rows, LAMBDA e : e.name = name)

Unresolved(error, about, calls, cache) ==
  [id |-> None, name |-> None, error |-> Some([kind |-> error, about |-> about]),
   calls |-> calls, cache |-> cache]

\* variant: the first entry of that name is taken, however many there are
LookupFirstMatch(answer, name, calls, cache) ==
  LET matches == Matching(answer.rows, name)
  IN  IF ~answer.ok THEN Unresolved("api error", name, calls, cache)
      ELSE IF Len(matches) = 0 THEN Unresolved("not found", name, calls, cache)
      ELSE [id |-> Some(matches[1].id), name |-> Some(name), error |-> None,
            calls |-> calls, cache |-> cache]

\* the entry of that name among the rows of an answer
Lookup(answer, name, calls, cache) ==
  LET matches == Matching(answer.rows, name)
  IN  IF ~answer.ok THEN Unresolved("api error", name, calls, cache)
      ELSE IF Len(matches) = 0 THEN Unresolved("not found", name, calls, cache)
      ELSE IF Len(matches) > 1 THEN Unresolved("ambiguous", name, calls, cache)
      ELSE [id |-> Some(matches[1].id), name |-> Some(name), error |-> None,
            calls |-> calls, cache |-> cache]

\* variant: the projects are fetched whatever the cache holds
ResolveProjectNoCache(watcher_cfg, client, projects_cache) ==
  IF "project_id" \in DOMAIN watcher_cfg
  THEN [id |-> Some(watcher_cfg["project_id"]), name |-> None, error |-> None,
        calls |-> <<>>, cache |-> projects_cache]
  ELSE Lookup(client.projects, watcher_cfg["project_name"], <<GetProjects>>,
              Some(client.projects))

\* the project of a watcher: the numeric id when given, else the project of
\* that name, from the projects fetched before or fetched now
ResolveProject(watcher_cfg, client, projects_cache) ==
  IF "project_id" \in DOMAIN watcher_cfg
  THEN [id |-> Some(watcher_cfg["project_id"]), name |-> None, error |-> None,
        calls |-> <<>>, cache |-> projects_cache]
  ELSE IF projects_cache # None
  THEN Lookup(projects_cache[1], watcher_cfg["project_name"], <<>>, projects_cache)
  ELSE Lookup(client.projects, watcher_cfg["project_name"], <<GetProjects>>,
              Some(client.projects))

\* variant: the storage roots are looked up for the id the config gives,
\* project 1 when it gives a name
ResolveStorageRootOfConfig(watcher_cfg, client, project_id, storage_roots_cache) ==
  LET asked == IF "project_id" \in DOMAIN watcher_cfg THEN watcher_cfg["project_id"] ELSE 1
  IN  IF "storage_root_id" \in DOMAIN watcher_cfg
      THEN [id |-> Some(watcher_cfg["storage_root_id"]), name |-> None, error |-> None,
            calls |-> <<>>, cache |-> storage_roots_cache]
      ELSE IF asked \in DOMAIN storage_roots_cache
      THEN Lookup(storage_roots_cache[asked], watcher_cfg["storage_root_name"], <<>>,
                  storage_roots_cache)
      ELSE Lookup(client.storage_roots[asked], watcher_cfg["storage_root_name"],
                  <<GetStorageRoots(asked)>>,
                  [q \in DOMAIN storage_roots_cache \cup {asked} |->
                     IF q = asked THEN client.storage_roots[asked]
                     ELSE storage_roots_cache[q]])

\* the storage root of a watcher: the numeric id when given, else the root of
\* that name among the roots of the resolved project, fetched once per project
ResolveStorageRoot(watcher_cfg, client, project_id, storage_roots_cache) ==
  IF "storage_root_id" \in DOMAIN watcher_cfg
  THEN [id |-> Some(watcher_cfg["storage_root_id"]), name |-> None, error |-> None,
        calls |-> <<>>, cache |-> storage_roots_cache]
  ELSE IF project_id \in DOMAIN storage_roots_cache
  THEN Lookup(storage_roots_cache[project_id], watcher_cfg["storage_root_name"], <<>>,
              storage_roots_cache)
  ELSE Lookup(client.storage_roots[project_id], watcher_cfg["storage_root_name"],
              <<GetStorageRoots(project_id)>>,
              [q \in DOMAIN storage_roots_cache \cup {project_id} |->
                 IF q = project_id THEN client.storage_roots[project_id]
                 ELSE storage_roots_cache[q]])

NotResolved(error, calls, projects_cache, storage_roots_cache) ==
  [result |-> None, error |-> error, calls |-> calls,
   projects_cache |-> projects_cache, storage_roots_cache |-> storage_roots_cache]

Missing(about) == Some([kind |-> "missing", about |-> about])

\* resolve_watcher_config(watcher_cfg, client, projects_cache, storage_roots_cache)
\* -> (result, error), with the calls it made and the caches it leaves
resolve_watcher_config(watcher_cfg, client, projects_cache, storage_roots_cache) ==
  IF "watch_path" \notin DOMAIN watcher_cfg
  THEN NotResolved(Missing("watch_path"), <<>>, projects_cache, storage_roots_cache)
  ELSE IF {"project_id", "project_name"} \cap DOMAIN watcher_cfg = {}
  THEN NotResolved(Missing("project_id or project_name"), <<>>,
                   projects_cache, storage_roots_cache)
  ELSE IF {"storage_root_id", "storage_root_name"} \cap DOMAIN watcher_cfg = {}
  THEN NotResolved(Missing("storage_root_id or storage_root_name"), <<>>,
                   projects_cache, storage_roots_cache)
  ELSE LET project == ResolveProject(watcher_cfg, client, projects_cache)
       IN  IF project.error # None
           THEN NotResolved(project.error, project.calls, project.cache, storage_roots_cache)
           ELSE LET root == ResolveStorageRoot(watcher_cfg, client, project.id[1],
                                               storage_roots_cache)
                IN  IF root.error # None
                    THEN NotResolved(root.error, project.calls \o root.calls,
                                     project.cache, root.cache)
                    ELSE [result |-> Some([watch_path |-> watcher_cfg["watch_path"],
                                           project_id |-> project.id[1],
                                           storage_root_id |-> root.id[1],
                                           project_name |-> project.name,
                                           storage_root_name |-> root.name,
                                           resolved_by_name |->
                                             project.name # None \/ root.name # None]),
                          error |-> None,
                          calls |-> project.calls \o root.calls,
                          projects_cache |-> project.cache,
                          storage_roots_cache |-> root.cache]

\* watcher configs: each of the five keys given or left out
WatchPathParts == {<<>>, [watch_path |-> "/data/folder"]}
ProjectParts ==
  {<<>>, [project_id |-> 1], [project_id |-> 2], [project_name |-> "Project A"],
   [project_name |-> "Project B"], [project_name |-> "Missing Project"],
   [project_id |-> 2, project_name |-> "Project A"]}
StorageRootParts ==
  {<<>>, [storage_root_id |-> 2], [storage_root_name |-> "Storage"],
   [storage_root_name |-> "MISSING_ROOT"],
   [storage_root_id |-> 2, storage_root_name |-> "Storage"]}
WatcherConfigs ==
  {w @@ pr @@ sr : w \in WatchPathParts, pr \in ProjectParts, sr \in StorageRootParts}

\* what the supervisor may answer: the entries, entries of one name, an error
ProjectsAnswers ==
  {Answer(<<[id |-> 1, name |-> "Project A"], [id |-> 2, name |-> "Project B"]>>),
   Answer(<<[id |-> 1, name |-> "Project A"], [id |-> 2, name |-> "Project A"]>>),
   Failure}
StorageRootsAnswers ==
  {Answer(<<[id |-> 1, name |-> "Storage"]>>),
   Answer(<<[id |-> 1, name |-> "Storage"], [id |-> 2, name |-> "Storage"]>>),
   Failure}
Clients ==
  {[projects |-> a, storage_roots |-> r] :
     a \in ProjectsAnswers, r \in [{1, 2} -> StorageRootsAnswers]}

\* the watchers of a configuration file: complete configs, by id or by name
FileConfigs ==
  {[watch_path |-> "/data/folder"] @@ pr @@ sr :
     pr \in ProjectParts \ {<<>>, [project_id |-> 2, project_name |-> "Project A"]},
     sr \in {[storage_root_id |-> 2], [storage_root_name |-> "Storage"]}}
WatcherLists == UNION {[1..n -> FileConfigs] : n \in 0..MaxWatchers}
FileClients ==
  {[projects |-> a, storage_roots |-> [q \in {1, 2} |-> r]] :
     a \in ProjectsAnswers, r \in {Answer(<<[id |-> 1, name |-> "Storage"]>>), Failure}}

\* ------------------------------------------------- calls of the services
requests == <<pc, req, next_version_int, resp>>

validate_rdmp_schema_call(rdmp_json) ==
  /\ call = NoCall
  /\ LET out == validate_rdmp_schema_outcome(rdmp_json)
     IN  call' = [fn |-> "validate_rdmp_schema", arg |-> rdmp_json,
                  raised |-> out.raised, ok |-> out.ok, errors |-> out.errors]
  /\ UNCHANGED <<store, requests, resolver, releases, audit_logs, projects, supervisor_client, handler>>

validate_field_value_call(field_config, value) ==
  /\ call = NoCall
  /\ LET out == validate_field_value(field_config, value)
     IN  call' = [fn |-> "validate_field_value", field_config |-> field_config,
                  value |-> value, raised |-> out.raised, ok |-> out.ok,
                  message |-> out.message]
  /\ UNCHANGED <<store, requests, resolver, releases, audit_logs, projects, supervisor_client, handler>>

check_sample_completeness_call(sample, rdmp) ==
  /\ call = NoCall
  /\ call' = [fn |-> "check_sample_completeness", sample |-> sample, rdmp |-> rdmp,
              raised |-> FALSE, result |-> check_sample_completeness(sample, rdmp)]
  /\ UNCHANGED <<store, requests, resolver, releases, audit_logs, projects, supervisor_client, handler>>

\* GET /projects/{project_id}/rdmp/versions
list_project_rdmp_versions_call(project_id) ==
  /\ call = NoCall
  /\ call' = [fn |-> "list_project_rdmp_versions", id |-> project_id,
              versions |-> list_project_rdmp_versions(rdmp_versions, project_id)]
  /\ UNCHANGED <<store, requests, resolver, releases, audit_logs, projects, supervisor_client, handler>>

\* GET /templates/{template_id}/versions
list_template_versions_call(template_id) ==
  /\ call = NoCall
  /\ call' = [fn |-> "list_template_versions", id |-> template_id,
              versions |-> list_template_versions(rdmp_template_versions, template_id)]
  /\ UNCHANGED <<store, requests, resolver, releases, audit_logs, projects, supervisor_client, handler>>

\* resolve_watcher_config(watcher_cfg, client), no cache handed in
resolve_watcher_config_call(watcher_cfg, client) ==
  /\ call = NoCall
  /\ LET out == resolve_watcher_config(watcher_cfg, client, None, <<>>)
     IN  call' = [fn |-> "resolve_watcher_config", watcher_cfg |-> watcher_cfg,
                  client |-> client, result |-> out.result, error |-> out.error,
                  calls |-> out.calls]
  /\ UNCHANGED <<store, requests, resolver, releases, audit_logs, projects, supervisor_client, handler>>

\* resolve_all_watchers(watchers_cfg, client): the caches start empty
resolve_all_watchers_begin(watchers_cfg, client) ==
  /\ call = NoCall
  /\ call' = [fn |-> "resolve_all_watchers", client |-> client,
              watchers_cfg |-> watchers_cfg, todo |-> watchers_cfg,
              resolved |-> <<>>, failed |-> <<>>, projects_cache |-> None,
              storage_roots_cache |-> <<>>, calls |-> <<>>]
  /\ UNCHANGED <<store, requests, resolver, releases, audit_logs, projects, supervisor_client, handler>>

\* variant: the loop ends at the first watcher config that fails
resolve_all_watchers_next_until_failure ==
  /\ call.fn = "resolve_all_watchers"
  /\ call.todo # <<>>
  /\ LET watcher_cfg == Head(call.todo)
         out == resolve_watcher_config(watcher_cfg, call.client, call.projects_cache,
                                       call.storage_roots_cache)
     IN  call' = [call EXCEPT
                    !.todo = IF out.result # None THEN Tail(@) ELSE <<>>,
                    !.resolved = IF out.result # None THEN Append(@, out.result[1]) ELSE @,
                    !.failed = IF out.result = None
                               THEN Append(@, <<watcher_cfg, out.error[1]>>) ELSE @,
                    !.projects_cache = out.projects_cache,
                    !.storage_roots_cache = out.storage_roots_cache,
                    !.calls = @ \o out.calls]
  /\ UNCHANGED <<store, requests, resolver, releases, audit_logs, projects, supervisor_client, handler>>

\* ... the next watcher config, resolved with the caches of this call
resolve_all_watchers_next ==
  /\ call.fn = "resolve_all_watchers"
  /\ call.todo # <<>>
  /\ LET watcher_cfg == Head(call.todo)
         out == resolve_watcher_config(watcher_cfg, call.client, call.projects_cache,
                                       call.storage_roots_cache)
     IN  call' = [call EXCEPT
                    !.todo = Tail(@),
                    !.resolved = IF out.result # None THEN Append(@, out.result[1]) ELSE @,
                    !.failed = IF out.result = None
                               THEN Append(@, <<watcher_cfg, out.error[1]>>) ELSE @,
                    !.projects_cache = out.projects_cache,
                    !.storage_roots_cache = out.storage_roots_cache,
                    !.calls = @ \o out.calls]
  /\ UNCHANGED <<store, requests, resolver, releases, audit_logs, projects, supervisor_client, handler>>

\* ... return resolved, failed
resolve_all_watchers_return ==
  /\ call.fn = "resolve_all_watchers"
  /\ call.todo = <<>>
  /\ call' = NoCall
  /\ UNCHANGED <<store, requests, resolver, releases, audit_logs, projects, supervisor_client, handler>>

\* the caller has the outcome
\* a request to a handler wrapped by require_project_permission
require_project_permission_call(permission_name, kwargs) ==
  /\ call = NoCall
  /\ call' = [fn |-> "require_project_permission", permission_name |-> permission_name,
              kwargs |-> kwargs,
              outcome |-> require_project_permission(permission_name, kwargs,
                                                     memberships, rdmp_versions)]
  /\ UNCHANGED <<store, requests, resolver, releases, audit_logs, projects, supervisor_client, handler>>

call_return ==
  /\ call # NoCall
  /\ call' = NoCall
  /\ UNCHANGED <<store, requests, resolver, releases, audit_logs, projects, supervisor_client, handler>>

\* the validator applied to documents and to values of other shapes
NextValidate ==
  \/ \E rdmp_json \in Documents \cup WrongShapes : validate_rdmp_schema_call(rdmp_json)
  \/ call_return

SpecValidate == Init /\ [][NextValidate]_vars

\* values and samples checked against the fields of committed documents
NextSamples ==
  \/ \E field_config \in FieldSpecs, value \in Values :
       validate_field_value_call(field_config, value)
  \/ \E sample \in Samples, rdmp \in CommittedDocuments :
       check_sample_completeness_call(sample, rdmp)
  \/ call_return

SpecSamples == Init /\ [][NextSamples]_vars

\* concurrent creation of releases of projects that get their RDMP versions
NextRelease ==
  \/ \E p \in Writers, pr \in ReleaseProjects, u \in Users :
       create_project_rdmp_version_begin(p, pr, RawInitial, u)
  \/ \E p \in Writers : create_project_rdmp_version_commit(p)
  \/ \E p \in Procs, pr \in ReleaseProjects, tag \in Tags, rv \in VersionIds,
        parent \in {None} \cup {Some(id) : id \in {1}}, u \in Users :
       create_release_begin(p, pr, tag, rv, parent, u)
  \/ \E p \in Procs : create_release_commit(p)
  \/ \E p \in Procs : handler_return(p)

SpecRelease == Init /\ [][NextRelease]_vars

\* releases and their corrections: each project gets its first RDMP version,
\* and several tags, so that a release can name an earlier release of its
\* project as its parent
NextCorrections ==
  \/ \E p \in Writers, pr \in ReleaseProjects, u \in Users :
       /\ ProjectRows(rdmp_versions, pr) = {}
       /\ create_project_rdmp_version_begin(p, pr, RawInitial, u)
  \/ \E p \in Writers : create_project_rdmp_version_commit(p)
  \/ \E p \in Writers, pr \in ReleaseProjects, tag \in CorrectionTags, rv \in VersionIds,
        parent \in {None} \cup {Some(id) : id \in ReleaseIds}, u \in Users :
       /\ Cardinality(releases) < MaxReleases
       /\ create_release_begin(p, pr, tag, rv, parent, u)
  \/ \E p \in Writers : create_release_commit(p)
  \/ \E p \in Writers : handler_return(p)

SpecCorrections == Init /\ [][NextCorrections]_vars

\* the versions of two templates and of two projects, appended and listed
NextLists ==
  \/ \E p \in Writers, n \in TemplateNames, u \in Users :
       create_template(p, n, RawInitial, u)
  \/ \E p \in Writers, t \in TemplateIds, u \in Users :
       create_template_version_begin(p, t, RawInitial, u)
  \/ \E p \in Writers : create_template_version_commit(p)
  \/ \E p \in Writers, pr \in ReleaseProjects, u \in Users :
       create_project_rdmp_version_begin(p, pr, RawInitial, u)
  \/ \E p \in Writers : create_project_rdmp_version_commit(p)
  \/ \E p \in Writers : handler_return(p)
  \/ \E pr \in ReleaseProjects : list_project_rdmp_versions_call(pr)
  \/ \E t \in TemplateIds : list_template_versions_call(t)
  \/ call_return

SpecLists == Init /\ [][NextLists]_vars

\* --------------------------- ingest helper: SupervisorClient._request
MaxRequests == 3
LoginStatuses == {200, 401}
ResponseStatuses == {200, 401, 500}

\* what the client did in this call: a login or a request, the status of the
\* answer, and the token held after the login or sent with the request
Exchange(ev, status_code, token) == [ev |-> ev, status_code |-> status_code, token |-> token]

\* _request up to the first `if self._token` of _get_token
SupervisorClient_request_begin ==
  /\ supervisor_client.pc = "idle"
  /\ supervisor_client.calls < MaxRequests
  /\ supervisor_client' =
       [supervisor_client EXCEPT !.calls = @ + 1, !.attempt = 1,
                                 !.cached = supervisor_client._token,
                                 !.trace = <<>>, !.outcome = "none",
                                 !.pc = IF supervisor_client._token # None
                                        THEN "request" ELSE "login"]
  /\ UNCHANGED <<store, requests, resolver, releases, call, audit_logs, projects, handler>>

\* _get_token from the POST /api/auth/login to its return
SupervisorClient_get_token(status_code) ==
  /\ supervisor_client.pc = "login"
  /\ IF status_code # 200
     THEN supervisor_client' = [supervisor_client EXCEPT !.trace = Append(@, Exchange("login", status_code, None)),
                                   !.pc = "done", !.outcome = "Login failed"]
     ELSE supervisor_client' = [supervisor_client EXCEPT !.issued = @ + 1, !._token = Some(supervisor_client.issued + 1),
                                   !.trace = Append(@, Exchange("login", status_code,
                                                                Some(supervisor_client.issued + 1))),
                                   !.pc = "request"]
  /\ UNCHANGED <<store, requests, resolver, releases, call, audit_logs, projects, handler>>

\* variant: the token is kept after a 401 and sent again
SupervisorClient_send_keeping_token(status_code) ==
  /\ supervisor_client.pc = "request"
  /\ LET sent == Append(supervisor_client.trace, Exchange("request", status_code, supervisor_client._token))
     IN  IF status_code = 401 /\ supervisor_client.attempt = 1
         THEN supervisor_client' = [supervisor_client EXCEPT !.trace = sent, !.attempt = 2, !.pc = "request"]
         ELSE IF status_code >= 400
         THEN supervisor_client' = [supervisor_client EXCEPT !.trace = sent, !.pc = "done", !.outcome = "API error"]
         ELSE supervisor_client' = [supervisor_client EXCEPT !.trace = sent, !.pc = "done", !.outcome = "returned"]
  /\ UNCHANGED <<store, requests, resolver, releases, call, audit_logs, projects, handler>>

\* self._client.request(...) and what follows its answer: the first answer
\* 401 drops the token and goes back to _get_token, any other answer ends
\* the call
SupervisorClient_send(status_code) ==
  /\ supervisor_client.pc = "request"
  /\ LET sent == Append(supervisor_client.trace, Exchange("request", status_code, supervisor_client._token))
     IN  IF status_code = 401 /\ supervisor_client.attempt = 1
         THEN supervisor_client' = [supervisor_client EXCEPT !.trace = sent, !._token = None, !.attempt = 2,
                                       !.pc = "login"]
         ELSE IF status_code >= 400
         THEN supervisor_client' = [supervisor_client EXCEPT !.trace = sent, !.pc = "done", !.outcome = "API error"]
         ELSE supervisor_client' = [supervisor_client EXCEPT !.trace = sent, !.pc = "done", !.outcome = "returned"]
  /\ UNCHANGED <<store, requests, resolver, releases, call, audit_logs, projects, handler>>

\* the call is over; the client keeps its token
SupervisorClient_request_return ==
  /\ supervisor_client.pc = "done"
  /\ supervisor_client' = [supervisor_client EXCEPT !.pc = "idle"]
  /\ UNCHANGED <<store, requests, resolver, releases, call, audit_logs, projects, handler>>

\* calls of _request one after the other, the supervisor answering as it likes
NextClient ==
  \/ SupervisorClient_request_begin
  \/ \E status_code \in LoginStatuses : SupervisorClient_get_token(status_code)
  \/ \E status_code \in ResponseStatuses : SupervisorClient_send(status_code)
  \/ SupervisorClient_request_return

SpecClient == Init /\ [][NextClient]_vars

\* ------------------------ ingest helper: IngestEventHandler.on_created
\* run_watcher schedules the handlers on one Observer: its thread takes the
\* events from the queue one at a time and calls on_created for each, while
\* the emitter goes on queueing events and the files come and go.
MaxEvents == 3
EventPaths == {"run1.raw", "link_to_run1", "run2.raw"}

\* Path(event.src_path).resolve(): a link resolves to its target
Resolve(src_path) == IF src_path = "link_to_run1" THEN "run1.raw" ELSE src_path

FileSystemEvent(src_path, is_directory) ==
  [src_path |-> src_path, is_directory |-> is_directory]
CreatedEvents ==
  {FileSystemEvent(src_path, FALSE) : src_path \in EventPaths}
    \cup {FileSystemEvent("subfolder", TRUE)}

\* something is created in the watched folder and the emitter queues its event
emit(event) ==
  /\ handler.emitted < MaxEvents
  /\ handler' = [handler EXCEPT !.emitted = @ + 1, !.queue = Append(@, event),
                                !.files = IF event.is_directory THEN @
                                          ELSE @ \cup {Resolve(event.src_path)}]
  /\ UNCHANGED <<store, requests, resolver, releases, call, audit_logs, projects,
                 supervisor_client>>

\* a file of the watched folder is removed or renamed away
unlink(file_path) ==
  /\ file_path \in handler.files
  /\ handler' = [handler EXCEPT !.files = @ \ {file_path}]
  /\ UNCHANGED <<store, requests, resolver, releases, call, audit_logs, projects,
                 supervisor_client>>

\* on_created up to time.sleep(0.5)
on_created_begin ==
  /\ handler.pc = "idle"
  /\ handler.queue # <<>>
  /\ LET event == Head(handler.queue)
         file_path == Resolve(event.src_path)
     IN  IF event.is_directory \/ file_path \in handler.processed_files
         THEN handler' = [handler EXCEPT !.queue = Tail(@)]
         ELSE handler' = [handler EXCEPT !.queue = Tail(@), !.pc = "sleep",
                                         !.event = Some(event),
                                         !.file_path = Some(file_path)]
  /\ UNCHANGED <<store, requests, resolver, releases, call, audit_logs, projects,
                 supervisor_client>>

\* variant: the path is not added to processed_files
on_created_wake_forgetting ==
  /\ handler.pc = "sleep"
  /\ IF handler.file_path[1] \notin handler.files
     THEN handler' = [handler EXCEPT !.pc = "idle", !.event = None, !.file_path = None]
     ELSE handler' = [handler EXCEPT
            !.pc = "_process_file",
            !.runs = Append(@, [file_path |-> handler.file_path[1],
                                event |-> handler.event[1], raised |-> None])]
  /\ UNCHANGED <<store, requests, resolver, releases, call, audit_logs, projects,
                 supervisor_client>>

\* ... from the end of the sleep to the call of _process_file
on_created_wake ==
  /\ handler.pc = "sleep"
  /\ IF handler.file_path[1] \notin handler.files
     THEN handler' = [handler EXCEPT !.pc = "idle", !.event = None, !.file_path = None]
     ELSE handler' = [handler EXCEPT
            !.processed_files = @ \cup {handler.file_path[1]},
            !.pc = "_process_file",
            !.runs = Append(@, [file_path |-> handler.file_path[1],
                                event |-> handler.event[1], raised |-> None])]
  /\ UNCHANGED <<store, requests, resolver, releases, call, audit_logs, projects,
                 supervisor_client>>

\* _process_file returns or raises; on_created catches the exception
on_created_end(raised) ==
  /\ handler.pc = "_process_file"
  /\ handler' = [handler EXCEPT !.pc = "idle", !.event = None, !.file_path = None,
                                !.runs[Len(handler.runs)].raised = Some(raised)]
  /\ UNCHANGED <<store, requests, resolver, releases, call, audit_logs, projects,
                 supervisor_client>>

NextHandler ==
  \/ \E event \in CreatedEvents : emit(event)
  \/ \E file_path \in {Resolve(src_path) : src_path \in EventPaths} : unlink(file_path)
  \/ on_created_begin
  \/ on_created_wake
  \/ \E raised \in BOOLEAN : on_created_end(raised)

SpecHandler == Init /\ [][NextHandler]_vars

\* --------------------- ingest helper: IngestEventHandler._process_file
\* What _process_file does is the sequence of its calls to the supervisor
\* and of its prompts. Its inputs: whether the relative path can be computed,
\* the sample identifier after extraction and prompt, what the supervisor
\* answers to each call (an exception of the client is ok = FALSE), whether
\* the file is still there for stat(), and what is typed at each prompt.
MaxFieldPrompts == 3
FieldKeys == <<"age", "site", "note">>
FieldType(key) == IF key = "age" THEN "number" ELSE "string"
Typed == {<<>>, <<"7">>, <<"x">>}

Did(op, key, value, ok) == [op |-> op, key |-> key, value |-> value, ok |-> ok]

\* [f for f in self.rdmp_fields if f.get("required", False)][:self.max_field_prompts]
FirstRequired(rdmp_fields, max_field_prompts) ==
  LET required == SelectSeq(rdmp_fields, LAMBDA f : Get(f, "required", FALSE) = TRUE)
  IN  SubSeq(required, 1, IF Len(required) < max_field_prompts
                          THEN Len(required) ELSE max_field_prompts)

\* one turn of `for field in required_fields`: the prompt, then nothing (no
\* value, or no number where one is due) or set_sample_field
PromptField(field, typed, refused) ==
  LET field_type == Get(field, "type", "string")
      prompt == Did("prompt_for_value", field.key, None, TRUE)
  IN  IF typed[field.key] = <<>> THEN <<prompt>>
      ELSE IF field_type = "number" /\ ~ParsesAsFloat(JStr(typed[field.key])) THEN <<prompt>>
      ELSE <<prompt, Did("set_sample_field", field.key,
                         [t |-> IF field_type = "number" THEN "float" ELSE "str",
                          v |-> typed[field.key]],
                         field.key \notin refused)>>

\* variant: the loop ends at the first field the supervisor refuses
RECURSIVE PromptFieldsUntilRefused(_, _, _, _)
PromptFieldsUntilRefused(required_fields, n, typed, refused) ==
  IF n > Len(required_fields) THEN <<>>
  ELSE LET did == PromptField(required_fields[n], typed, refused)
       IN  IF did[Len(did)].ok
           THEN did \o PromptFieldsUntilRefused(required_fields, n + 1, typed, refused)
           ELSE did

\* the loop over required_fields
RECURSIVE PromptFields(_, _, _, _)
PromptFields(required_fields, n, typed, refused) ==
  IF n > Len(required_fields) THEN <<>>
  ELSE PromptField(required_fields[n], typed, refused)
         \o PromptFields(required_fields, n + 1, typed, refused)

\* _process_file(file_path) of a handler with rdmp_fields and max_field_prompts
process_file(rdmp_fields, max_field_prompts, given) ==
  IF ~given.relative_path_ok THEN [raised |-> FALSE, did |-> <<>>]
  ELSE LET found == IF given.sample_identifier = None THEN <<>>
                    ELSE <<Did("find_or_create_sample", "", given.sample_identifier,
                               given.sample_ok)>>
           sample_id == IF given.sample_identifier # None /\ given.sample_ok
                        THEN Some(1) ELSE None
           registered == Did("create_raw_data_item", "", sample_id, given.registered_ok)
       IN  IF ~given.file_exists THEN [raised |-> TRUE, did |-> found]
           ELSE IF ~given.registered_ok
           THEN [raised |-> FALSE, did |-> Append(found, registered)]
           ELSE IF sample_id = None \/ rdmp_fields = <<>>
           THEN [raised |-> FALSE, did |-> Append(found, registered)]
           ELSE [raised |-> FALSE,
                 did |-> Append(found, registered)
                           \o PromptFields(FirstRequired(rdmp_fields, max_field_prompts), 1,
                                           given.typed, given.refused)]

\* the fields a handler is built with: the three keys in this order, each
\* required or not, or no field at all
RDMPFieldLists ==
  {<<>>} \cup
  {[i \in 1..3 |-> [key |-> FieldKeys[i], type |-> FieldType(FieldKeys[i]),
                     required |-> i \in required]] : required \in SUBSET (1..3)}
Givens ==
  [relative_path_ok : BOOLEAN, sample_identifier : {None, Some("S-1")},
   sample_ok : BOOLEAN, file_exists : BOOLEAN, registered_ok : BOOLEAN,
   typed : [{"age", "site", "note"} -> Typed], refused : SUBSET {"age", "site", "note"}]

process_file_call(rdmp_fields, max_field_prompts, given) ==
  /\ call' = [fn |-> "_process_file", rdmp_fields |-> rdmp_fields,
              max_field_prompts |-> max_field_prompts, given |-> given,
              out |-> process_file(rdmp_fields, max_field_prompts, given)]
  /\ UNCHANGED <<store, requests, resolver, releases, audit_logs, projects,
                 supervisor_client, handler>>

NextProcessFile ==
  \/ /\ call = NoCall
     /\ \E rdmp_fields \in RDMPFieldLists, max_field_prompts \in 0..MaxFieldPrompts,
           given \in Givens :
          process_file_call(rdmp_fields, max_field_prompts, given)
  \/ call_return

SpecProcessFile == Init /\ [][NextProcessFile]_vars

\* appends to templates and projects that exist and that do not
RequestedProjectIds == Projects \cup {3}

NextScopes ==
  \/ \E p \in Writers, u \in Users :
       create_template(p, "base", RawInitial, u)
  \/ \E p \in Writers, t \in TemplateIds, u \in Users :
       create_template_version_begin(p, t, RawInitial, u)
  \/ \E p \in Writers : create_template_version_commit(p)
  \/ \E p \in Writers, pr \in RequestedProjectIds, u \in Users :
       create_project_rdmp_version_begin(p, pr, RawInitial, u)
  \/ \E p \in Writers : create_project_rdmp_version_commit(p)
  \/ \E p \in Writers : handler_return(p)

SpecScopes == Init /\ [][NextScopes]_vars

\* requests to a guarded handler while versions and memberships change
PermissionNames == {"can_manage_rdmp", "can_edit_metadata", "can_delete_project"}
GuardKwargs ==
  [project_id : {None, Some(0), Some(1)}, current_user : {None, Some(1)},
   db : {None, Some(1)}]

NextGuard ==
  \/ \E p \in Writers, pr \in Projects, raw \in RawBodies, u \in Users :
       create_project_rdmp_version_begin(p, pr, raw, u)
  \/ \E p \in Writers : create_project_rdmp_version_commit(p)
  \/ \E p \in Writers : handler_return(p)
  \/ \E pr \in Projects, u \in Users, r \in RoleNames : set_membership(pr, u, r)
  \/ \E pr \in Projects, u \in Users : remove_membership(pr, u)
  \/ /\ call = NoCall
     /\ \E permission_name \in PermissionNames, kwargs \in GuardKwargs :
          require_project_permission_call(permission_name, kwargs)
  \/ call_return

SpecGuard == Init /\ [][NextGuard]_vars

\* watcher configs resolved one at a time against what the supervisor answers
NextResolve ==
  \/ /\ call = NoCall
     /\ \E watcher_cfg \in WatcherConfigs, client \in Clients :
          resolve_watcher_config_call(watcher_cfg, client)
  \/ call_return

SpecResolve == Init /\ [][NextResolve]_vars

\* the watchers of a configuration file resolved in one call
NextWatchers ==
  \/ /\ call = NoCall
     /\ \E watchers_cfg \in WatcherLists, client \in FileClients :
          resolve_all_watchers_begin(watchers_cfg, client)
  \/ resolve_all_watchers_next
  \/ resolve_all_watchers_return

SpecWatchers == Init /\ [][NextWatchers]_vars

\* changes of samples reported to the audit log, and projects deleted
NextAudit ==
  \/ \E pr \in ReleaseProjects, u \in Users, target_id \in SampleIds :
       /\ Cardinality(audit_logs) < MaxAuditEntries
       /\ \/ record(pr, u, "CREATE", "Sample", target_id, None, Some(SampleAfter))
          \/ record(pr, u, "UPDATE", "Sample", target_id, Some(SampleBefore), Some(SampleAfter))
          \/ record(pr, u, "DELETE", "Sample", target_id, Some(SampleBefore), None)
  \/ \E pr \in ReleaseProjects, foreign_keys \in BOOLEAN : delete_project(pr, foreign_keys)

SpecAudit == Init /\ [][NextAudit]_vars

\* appends of documents with categorical fields
NextCategorical ==
  \/ \E p \in Procs, pr \in Projects, raw \in CategoricalBodies \cup {RawDupRole}, u \in Users :
       create_project_rdmp_version_begin(p, pr, raw, u)
  \/ \E p \in Procs : create_project_rdmp_version_commit(p)
  \/ \E p \in Procs : handler_return(p)

SpecCategorical == Init /\ [][NextCategorical]_vars

\* concurrent creation of templates and appends to template scopes
NextTemplates ==
  \/ \E p \in Procs, n \in TemplateNames, raw \in TemplateBodies, u \in Users :
       create_template(p, n, raw, u)
  \/ \E p \in Procs, t \in TemplateIds, raw \in TemplateBodies, u \in Users :
       create_template_version_begin(p, t, raw, u)
  \/ \E p \in Procs : create_template_version_commit(p)
  \/ \E p \in Procs : handler_return(p)

SpecTemplates == Init /\ [][NextTemplates]_vars

\* permission resolution against appends, the migration and membership changes
NextPerm ==
  \/ \E p \in Writers, pr \in Projects, raw \in RawBodies, u \in Users :
       create_project_rdmp_version_begin(p, pr, raw, u)
  \/ \E p \in Writers : create_project_rdmp_version_commit(p)
  \/ \E p \in Writers : handler_return(p)
  \/ upgrade
  \/ \E pr \in Projects, u \in Users, r \in RoleNames : set_membership(pr, u, r)
  \/ \E pr \in Projects, u \in Users : remove_membership(pr, u)
  \/ \E pr \in Projects, u \in Users : get_user_permissions_membership(pr, u)
  \/ get_user_permissions_rdmp
  \/ get_user_permissions_return

SpecPerm == Init /\ [][NextPerm]_vars

\* ------------------------------------------------------------ properties
VersionInts(rows) == {r.version_int : r \in rows}
IsLatest(r, rows) == r \in rows /\ \A q \in rows : q.version_int <= r.version_int
Scopes == {ProjectRows(rdmp_versions, pr) : pr \in Projects}
            \cup {TemplateRows(rdmp_template_versions, t) : t \in TemplateIds}
Status(p) == resp[p].status

\* C1: no two committed documents of one scope (template or project) have
\* the same version_int, whatever the interleaving of the appends.
C1_NoDuplicateVersion ==
  \A rows \in Scopes : \A a, b \in rows : a.version_int = b.version_int => a = b

\* two appends raced for one number of a project: one committed, one lost
C1_Witness ==
  \E p, q \in Procs :
    /\ Status(p) = "201_CREATED" /\ Status(q) = "IntegrityError"
    /\ \E pr \in Projects : Cardinality(ProjectRows(rdmp_versions, pr)) = MaxVersion

\* C2: for every scope with N committed documents the version_int values
\* are exactly 1..N, and every template has its version 1.
C2_ContiguousVersions ==
  /\ \A rows \in Scopes : VersionInts(rows) = 1..Cardinality(rows)
  /\ \A t \in rdmp_templates : 1 \in VersionInts(TemplateRows(rdmp_template_versions, t.id))

\* two templates with versions 1..MaxVersion and 1, after an append failed
C2_Witness ==
  /\ \E p \in Procs : Status(p) = "IntegrityError"
  /\ \E t \in rdmp_templates :
       VersionInts(TemplateRows(rdmp_template_versions, t.id)) = 1..MaxVersion
  /\ Cardinality(rdmp_templates) = 2

\* C3: an append fails on a (scope, version_int) conflict only after it has
\* retried the insert at least once with the re-read maximum.
C3_ConflictOnlyAfterRetry ==
  \A p \in Procs : Status(p) = "IntegrityError" => resp[p].attempts >= 2

\* the rules of the validator, stated on a stored body
DistinctBy(seq, k) == \A i, j \in 1..Len(seq) : seq[i][k] = seq[j][k] => i = j
BodyValid(body) ==
  /\ Len(body.roles) > 0
  /\ \A i \in 1..Len(body.roles) :
       /\ {"name", "permissions"} \subseteq DOMAIN body.roles[i]
       /\ PermKeys \subseteq DOMAIN body.roles[i].permissions
  /\ DistinctBy(body.roles, "name")
  /\ Len(body.fields) > 0
  /\ \A i \in 1..Len(body.fields) :
       /\ {"key", "label", "type"} \subseteq DOMAIN body.fields[i]
       /\ body.fields[i].type \in FieldTypes
       /\ "visibility" \in DOMAIN body.fields[i] => body.fields[i].visibility \in Visibilities
       /\ body.fields[i].type = "categorical" => "allowed_values" \in DOMAIN body.fields[i]
  /\ DistinctBy(body.fields, "key")

CommittedBodiesValid ==
  /\ \A r \in rdmp_versions : BodyValid(r.rdmp_json)
  /\ \A r \in rdmp_template_versions : BodyValid(r.template_json)

\* C4: an append answered with the validation errors leaves the store as it
\* was, and the body of every committed document satisfies the validator's rules.
C4_InvalidNeverPersisted ==
  [][/\ \A p \in Procs :
          (resp'[p].status = "400_BAD_REQUEST" /\ pc[p] = "idle")
            => /\ Len(resp'[p].errors) > 0
               /\ store' = store
     /\ CommittedBodiesValid']_vars

\* an append was rejected with errors while a valid document is committed
C4_Witness ==
  /\ \E p \in Procs : Status(p) = "400_BAD_REQUEST" /\ Len(resp[p].errors) > 0
  /\ rdmp_versions # {}

\* the step in which handler p commits a project version
Commits(p) == pc[p] = "insert" /\ resp'[p].status = "201_CREATED"
PriorVersionInt(p) ==
  LET prior == get_current_rdmp(rdmp_versions, req[p].target)
  IN  IF prior = None THEN 0 ELSE prior[1].version_int

\* a stored field keeps what the input gives and has the schema defaults elsewhere
FieldNormalised(given, stored) ==
  /\ DOMAIN stored = {"key", "label", "type", "required", "allowed_values", "visibility"}
  /\ \A k \in DOMAIN given : stored[k] = given[k]
  /\ "required" \notin DOMAIN given => stored.required = FALSE
  /\ "allowed_values" \notin DOMAIN given => stored.allowed_values = None
  /\ "visibility" \notin DOMAIN given => stored.visibility = "collaborators"

BodyNormalised(given, stored) ==
  /\ DOMAIN stored = {"roles", "fields", "ingestion_rules"}
  /\ stored.roles = given.roles
  /\ Len(stored.fields) = Len(given.fields)
  /\ \A i \in 1..Len(given.fields) : FieldNormalised(given.fields[i], stored.fields[i])
  /\ IF "ingestion_rules" \in DOMAIN given
     THEN stored.ingestion_rules = given.ingestion_rules
     ELSE stored.ingestion_rules = [file_patterns |-> <<>>, prompts |-> <<>>]

\* C5 as claimed: right after a successful append get_current_rdmp returns a
\* document whose body equals the appended input and whose version_int is
\* the prior latest plus 1 (1 for the first).
C5_RoundTripAsGiven ==
  [][\A p \in Procs : Commits(p) =>
       LET latest == get_current_rdmp(rdmp_versions', req[p].target)
       IN  /\ latest # None
           /\ latest[1].version_int = PriorVersionInt(p) + 1
           /\ latest[1].rdmp_json = req[p].raw]_vars

\* C5 amended: the body is the input with the schema defaults filled in
\* (required, allowed_values, visibility, ingestion_rules); version_int as claimed.
C5_RoundTripNormalised ==
  [][\A p \in Procs : Commits(p) =>
       LET latest == get_current_rdmp(rdmp_versions', req[p].target)
       IN  /\ latest # None
           /\ latest[1].version_int = PriorVersionInt(p) + 1
           /\ BodyNormalised(req[p].raw, latest[1].rdmp_json)]_vars

\* version 2 was appended from an input that left the optional attributes out
C5_Witness ==
  /\ \E p \in Procs : Status(p) = "201_CREATED"
  /\ \E pr \in Projects :
       LET latest == get_current_rdmp(rdmp_versions, pr)
       IN  /\ latest # None
           /\ latest[1].version_int = 2
           /\ latest[1].rdmp_json # RawInitial
           /\ BodyNormalised(RawInitial, latest[1].rdmp_json)

\* C6: get_current_rdmp returns the version of the project with the maximum
\* version_int, whatever the status of the versions, and None without one.
C6_CurrentIsMaxVersion ==
  \A pr \in Projects :
    LET rows == ProjectRows(rdmp_versions, pr)
        current == get_current_rdmp(rdmp_versions, pr)
    IN  IF rows = {} THEN current = None
        ELSE current # None /\ IsLatest(current[1], rows)

\* the resolver fetched the current RDMP of a project whose latest version
\* has no status while an older one is ACTIVE
C6_Witness ==
  /\ rpc = "done" /\ membership # None
  /\ \E a, b \in ProjectRows(rdmp_versions, rreq.project_id) :
       /\ a.status = Some("ACTIVE") /\ b.status = None
       /\ b.version_int > a.version_int
       /\ get_current_rdmp(rdmp_versions, rreq.project_id) = Some(b)

\* C7: get_user_permissions returns, without raising, a map with the four
\* recognized keys, each a boolean.
C7_AllFourKeys ==
  rpc = "done" =>
    /\ ~rresult.raised
    /\ PermKeys \subseteq DOMAIN rresult.perms
    /\ \A k \in DOMAIN rresult.perms : rresult.perms[k] \in BOOLEAN

\* the map of a matched role was returned
C7_Witness ==
  /\ rpc = "done" /\ membership # None
  /\ PermKeys \subseteq DOMAIN rresult.perms
  /\ \E k \in PermKeys : rresult.perms[k]
  /\ \E k \in PermKeys : ~rresult.perms[k]

\* the role of that name in the latest version of the project grants k
LatestGrants(rows, role_name, k) ==
  \E r \in rows :
    /\ IsLatest(r, rows)
    /\ \E i \in 1..Len(r.rdmp_json.roles) :
         /\ r.rdmp_json.roles[i].name = role_name
         /\ k \in DOMAIN r.rdmp_json.roles[i].permissions
         /\ r.rdmp_json.roles[i].permissions[k]
MemberRows(project_id, user_id) ==
  {m \in memberships : m.project_id = project_id /\ m.user_id = user_id}

\* C8: the membership get_user_permissions works with is the one stored for
\* (project, user); it returns true for k only if that membership exists, the
\* project has a version and the role of the latest version named by the
\* membership grants k; without membership or version all four are false,
\* and nothing is raised.
C8_OnlyGrantedByLatestRole ==
  [][/\ (rpc = "idle" /\ rpc' # "idle") =>
          LET rows == MemberRows(rreq'.project_id, rreq'.user_id)
          IN  IF rows = {} THEN membership' = None /\ rpc' = "done"
              ELSE \E m \in rows : membership' = Some(m.role_name)
     /\ (rpc # "done" /\ rpc' = "done") =>
          LET rows == ProjectRows(rdmp_versions, rreq'.project_id)
          IN  /\ ~rresult'.raised
              /\ (membership' = None \/ rows = {}) => rresult'.perms = AllFalse
              /\ \A k \in DOMAIN rresult'.perms :
                   rresult'.perms[k] =>
                     /\ membership' # None
                     /\ LatestGrants(rows, membership'[1], k)]_vars

\* a call returned a granted permission
C8_Witness ==
  /\ rpc = "done" /\ membership # None
  /\ \E k \in DOMAIN rresult.perms : rresult.perms[k]

\* C9: when no role of the project's latest version has the membership's
\* role_name, get_user_permissions returns all four false and does not raise.
C9_UnknownRoleDenied ==
  [][(rpc = "rdmp" /\ rpc' = "done") =>
       LET rows == ProjectRows(rdmp_versions, rreq.project_id)
       IN  (/\ rows # {}
            /\ \A r \in rows : IsLatest(r, rows) =>
                 \A i \in 1..Len(r.rdmp_json.roles) : r.rdmp_json.roles[i].name # membership[1])
           => rresult' = Returned(AllFalse)]_vars

\* a call that began while "Lead" was granted everything read the version
\* that renamed the role and returned all false
C9_Witness ==
  /\ rpc = "done" /\ membership = Some("Lead")
  /\ Returned(Grant(PermKeys)) \in ratomic
  /\ rresult = Returned(AllFalse)
  /\ \E r \in rdmp_versions : r.version_int = 2 /\ r.rdmp_json = ModelDump(RawRenamed)

\* C10: the result of get_user_permissions is the result of evaluating it
\* on one store state that existed during the call.
C10_SnapshotConsistent ==
  rpc = "done" => rresult \in ratomic

\* C11: every categorical field of every committed document has a non-empty
\* allowed_values: a body whose categorical field leaves allowed_values out,
\* or gives null or the empty list, is rejected and never stored.
C11_CategoricalHasAllowedValues ==
  \A r \in rdmp_versions : \A i \in 1..Len(r.rdmp_json.fields) :
    LET f == r.rdmp_json.fields[i]
    IN  f.type = "categorical" =>
          /\ f.allowed_values # None
          /\ Len(f.allowed_values[1]) > 0

\* ---------------------------------------------- the validator's verdicts
Validated == call.fn = "validate_rdmp_schema"
Entries(d, k) == IF k \in DOMAIN d.v /\ d.v[k].t = "list" THEN d.v[k].v ELSE <<>>

\* a JSON document: a mapping whose "roles" and "fields" entries are
\* mappings, with strings for names and keys and a mapping for permissions
WellShaped(d) ==
  /\ d.t = "dict"
  /\ \A i \in DOMAIN Entries(d, "roles") :
       LET role == Entries(d, "roles")[i]
       IN  /\ role.t = "dict"
           /\ "name" \in DOMAIN role.v => role.v["name"].t = "str"
           /\ "permissions" \in DOMAIN role.v => role.v["permissions"].t = "dict"
  /\ \A i \in DOMAIN Entries(d, "fields") :
       LET field == Entries(d, "fields")[i]
       IN  /\ field.t = "dict"
           /\ "key" \in DOMAIN field.v => field.v["key"].t = "str"

\* the rules of the schema, read off the document
SchemaRules(d) ==
  LET roles == Entries(d, "roles")
      fields == Entries(d, "fields")
  IN  /\ Len(roles) > 0
      /\ \A i \in DOMAIN roles :
           /\ {"name", "permissions"} \subseteq DOMAIN roles[i].v
           /\ PermKeys \subseteq DOMAIN roles[i].v["permissions"].v
      /\ \A i, j \in DOMAIN roles : roles[i].v["name"] = roles[j].v["name"] => i = j
      /\ Len(fields) > 0
      /\ \A i \in DOMAIN fields :
           /\ {"key", "label", "type"} \subseteq DOMAIN fields[i].v
           /\ fields[i].v["type"].v \in FieldTypes
           /\ "visibility" \in DOMAIN fields[i].v
                => fields[i].v["visibility"].v \in Visibilities
           /\ fields[i].v["type"].v = "categorical"
                => "allowed_values" \in DOMAIN fields[i].v
      /\ \A i, j \in DOMAIN fields : fields[i].v["key"] = fields[j].v["key"] => i = j

\* C12: validate_rdmp_schema returns ok = true exactly when errors is empty,
\* and exactly when the document satisfies every rule of the schema:
\* non-empty lists of roles and fields, name and four-key permissions on
\* every role, key, label and a known type on every field, distinct names
\* and keys, valid visibility where given, allowed_values on categoricals.
C12_OkExactlyWhenRulesHold ==
  (Validated /\ WellShaped(call.arg))
    => /\ ~call.raised
       /\ call.ok <=> Len(call.errors) = 0
       /\ call.ok <=> SchemaRules(call.arg)

\* a document with several fields, one of them categorical, was accepted
C12_Witness ==
  /\ Validated /\ WellShaped(call.arg)
  /\ call.ok
  /\ Len(Entries(call.arg, "fields")) >= 2
  /\ \E i \in DOMAIN Entries(call.arg, "fields") :
       Entries(call.arg, "fields")[i].v["type"].v = "categorical"

\* the instances of the rules on entry i of a list: <<i, rule, permission key>>
RoleRules ==
  {"role_missing_name", "role_missing_permissions", "duplicate_role_name"}
FieldRules ==
  {"field_missing_key", "duplicate_field_key", "field_missing_label", "field_missing_type",
   "field_invalid_type", "field_invalid_visibility", "categorical_missing_allowed_values"}
Instances(list, rules) ==
  {<<i, rule, "">> : i \in DOMAIN list, rule \in rules}
SameBefore(list, i, k) ==
  \E j \in 1..(i - 1) : k \in DOMAIN list[j] /\ list[j][k] = list[i][k]
Named(entry, k, i) == IF k \in DOMAIN entry THEN entry[k] ELSE IdxStr(i - 1)

RoleRuleViolated(roles, c) ==
  LET role == roles[c[1]]
  IN  CASE c[2] = "role_missing_name" -> "name" \notin DOMAIN role
        [] c[2] = "role_missing_permissions" -> "permissions" \notin DOMAIN role
        [] c[2] = "duplicate_role_name" ->
             "name" \in DOMAIN role /\ SameBefore(roles, c[1], "name")
        [] c[2] = "role_missing_permission" ->
             "permissions" \in DOMAIN role /\ c[3] \notin DOMAIN role.permissions
RoleRuleError(roles, c) ==
  LET role == roles[c[1]]
  IN  CASE c[2] = "role_missing_name" -> Err(c[2], IdxStr(c[1] - 1), "name")
        [] c[2] = "role_missing_permissions" -> Err(c[2], IdxStr(c[1] - 1), "permissions")
        [] c[2] = "duplicate_role_name" -> Err(c[2], role.name, "name")
        [] c[2] = "role_missing_permission" -> Err(c[2], Named(role, "name", c[1]), c[3])
RoleViolations(roles) ==
  {c \in Instances(roles, RoleRules)
         \cup {<<i, "role_missing_permission", k>> : i \in DOMAIN roles, k \in PermKeys} :
     RoleRuleViolated(roles, c)}

FieldRuleViolated(fields, c) ==
  LET field == fields[c[1]]
  IN  CASE c[2] = "field_missing_key" -> "key" \notin DOMAIN field
        [] c[2] = "duplicate_field_key" ->
             "key" \in DOMAIN field /\ SameBefore(fields, c[1], "key")
        [] c[2] = "field_missing_label" -> "label" \notin DOMAIN field
        [] c[2] = "field_missing_type" -> "type" \notin DOMAIN field
        [] c[2] = "field_invalid_type" ->
             "type" \in DOMAIN field /\ field.type \notin FieldTypes
        [] c[2] = "field_invalid_visibility" ->
             "visibility" \in DOMAIN field /\ field.visibility \notin Visibilities
        [] c[2] = "categorical_missing_allowed_values" ->
             /\ "type" \in DOMAIN field /\ field.type = "categorical"
             /\ "allowed_values" \notin DOMAIN field
FieldRuleError(fields, c) ==
  LET field == fields[c[1]]
  IN  CASE c[2] = "field_missing_key" -> Err(c[2], IdxStr(c[1] - 1), "key")
        [] c[2] = "duplicate_field_key" -> Err(c[2], field.key, "key")
        [] c[2] = "field_missing_label" -> Err(c[2], IdxStr(c[1] - 1), "label")
        [] c[2] = "field_missing_type" -> Err(c[2], IdxStr(c[1] - 1), "type")
        [] c[2] = "field_invalid_type" -> Err(c[2], Named(field, "key", c[1]), field.type)
        [] c[2] = "field_invalid_visibility" ->
             Err(c[2], Named(field, "key", c[1]), field.visibility)
        [] c[2] = "categorical_missing_allowed_values" ->
             Err(c[2], Named(field, "key", c[1]), "allowed_values")
FieldViolations(fields) ==
  {c \in Instances(fields, FieldRules) : FieldRuleViolated(fields, c)}

\* rules on the document itself
TopViolations(b) ==
  {e \in {Err("missing_roles_key", "roles", "roles"),
          Err("missing_fields_key", "fields", "fields"),
          Err("roles_not_nonempty_list", "roles", "roles"),
          Err("fields_not_nonempty_list", "fields", "fields")} :
     CASE e.code = "missing_roles_key" -> "roles" \notin DOMAIN b
       [] e.code = "missing_fields_key" -> "fields" \notin DOMAIN b
       [] e.code = "roles_not_nonempty_list" -> "roles" \in DOMAIN b /\ Len(b.roles) = 0
       [] e.code = "fields_not_nonempty_list" -> "fields" \in DOMAIN b /\ Len(b.fields) = 0}

\* C13: the validator does not stop at the first problem: errors holds one
\* entry for each violated instance of a rule (both entries for a document
\* without "roles" and without "fields", one entry per missing permission
\* key, naming the role or, when it has no name, its index) and nothing else.
C13_EveryViolationReported ==
  (Validated /\ WellShaped(call.arg))
    => LET b == Plain(call.arg)
           roles == Get(b, "roles", <<>>)
           fields == Get(b, "fields", <<>>)
       IN  /\ TopViolations(b) \subseteq Range(call.errors)
           /\ \A c \in RoleViolations(roles) : RoleRuleError(roles, c) \in Range(call.errors)
           /\ \A c \in FieldViolations(fields) : FieldRuleError(fields, c) \in Range(call.errors)
           /\ Len(call.errors) = Cardinality(TopViolations(b))
                                   + Cardinality(RoleViolations(roles))
                                   + Cardinality(FieldViolations(fields))

\* one call reported problems of a role without a name, by index and one
\* per missing permission key, together with a problem of a field
C13_Witness ==
  /\ Validated /\ WellShaped(call.arg)
  /\ Cardinality({i \in DOMAIN call.errors :
                    /\ call.errors[i].code = "role_missing_permission"
                    /\ call.errors[i].ref = "0"}) = 3
  /\ \E i \in DOMAIN call.errors : call.errors[i].code = "field_missing_label"

Occurrences(list, k, x) == Cardinality({i \in DOMAIN list : k \in DOMAIN list[i] /\ list[i][k] = x})
Reports(errors, e) == Cardinality({i \in DOMAIN errors : errors[i] = e})
Given(list, k) == {list[i][k] : i \in {j \in DOMAIN list : k \in DOMAIN list[j]}}

\* C14: a role name that occurs more than once makes the document invalid,
\* with one duplicate-role-name error for each occurrence after the first,
\* and likewise for field keys; repeated entries are never merged.
C14_DuplicatesReportedPerOccurrence ==
  (Validated /\ WellShaped(call.arg))
    => LET b == Plain(call.arg)
           roles == Get(b, "roles", <<>>)
           fields == Get(b, "fields", <<>>)
       IN  /\ \A name \in Given(roles, "name") :
                /\ Reports(call.errors, Err("duplicate_role_name", name, "name"))
                     = Occurrences(roles, "name", name) - 1
                /\ Occurrences(roles, "name", name) > 1 => ~call.ok
           /\ \A key \in Given(fields, "key") :
                /\ Reports(call.errors, Err("duplicate_field_key", key, "key"))
                     = Occurrences(fields, "key", key) - 1
                /\ Occurrences(fields, "key", key) > 1 => ~call.ok

\* three roles of one name: two duplicate-role-name errors
C14_Witness ==
  /\ Validated /\ WellShaped(call.arg)
  /\ Reports(call.errors, Err("duplicate_role_name", "Lead", "name")) = 2

\* C15: validate_rdmp_schema raises for no input, whatever the shape of the
\* nested structures: a value that is not a well-formed document gets
\* (false, errors).
C15_NeverRaises ==
  Validated => /\ ~call.raised
               /\ call.arg \in WrongShapes => ~call.ok

\* --------------------------------------------- field values and samples
\* C16: validate_field_value and check_sample_completeness raise for no
\* field spec, sample and RDMP of a committed document, a categorical field
\* stored with allowed_values null or without it and a spec with a missing
\* or unknown type included: they always return their result.
C16_NeverRaise ==
  call.fn \in {"validate_field_value", "check_sample_completeness"} => ~call.raised

NotAMember(value, field_config) ==
  LET allowed_values == Get(field_config, "allowed_values", Some(<<>>))
  IN  allowed_values = None \/ ~Member(value, allowed_values[1])

\* C17: validate_field_value returns (true, None) or (false, message), and
\* ok is false exactly when the type is number and the value does not parse
\* as a number, or the type is categorical and the value is no member of
\* allowed_values, or the type is date and the value is no string; a value
\* of a string field is always accepted.
C17_VerdictByType ==
  call.fn = "validate_field_value"
    => LET type == Get(call.field_config, "type", "")
       IN  /\ ~call.raised
           /\ \/ call.ok /\ call.message = None
              \/ ~call.ok /\ call.message # None
           /\ ~call.ok <=> \/ type = "number" /\ ~ParsesAsFloat(call.value)
                           \/ type = "categorical" /\ NotAMember(call.value, call.field_config)
                           \/ type = "date" /\ call.value.t # "str"
           /\ type = "string" => call.ok

Completeness == call.fn = "check_sample_completeness"
Filled(sample) == {sample.field_values[i].field_key : i \in DOMAIN sample.field_values}
RequiredAt(fields) == {i \in DOMAIN fields : fields[i].required}
DeclaredAt(fields, key) == CHOOSE i \in DOMAIN fields : fields[i].key = key

\* C18: is_complete is true exactly when missing_fields is empty, and
\* missing_fields lists, in the order the RDMP declares its fields, exactly
\* the keys of the required fields the sample has no value for.
C18_MissingRequiredInOrder ==
  Completeness
    => LET r == call.result
           fields == call.rdmp.rdmp_json.fields
       IN  /\ r.is_complete <=> r.missing_fields = <<>>
           /\ Range(r.missing_fields)
                = {fields[i].key : i \in {j \in RequiredAt(fields) :
                                           fields[j].key \notin Filled(call.sample)}}
           /\ \A a, b \in DOMAIN r.missing_fields :
                a < b => DeclaredAt(fields, r.missing_fields[a])
                           < DeclaredAt(fields, r.missing_fields[b])

\* required age and sex, only age filled: incomplete, sex missing
C18_Witness ==
  /\ Completeness
  /\ call.rdmp = [rdmp_json |-> ModelDump(RawFields(<<AgeField, SexField>>))]
  /\ Filled(call.sample) = {"age"}
  /\ call.result.is_complete = FALSE
  /\ call.result.missing_fields = <<"sex">>

\* C19: total_required is the number of required fields of the RDMP and
\* total_filled the number of distinct keys among the sample's values,
\* required or not, declared or not; total_required - |missing_fields| is
\* never more than total_filled.
C19_Totals ==
  Completeness
    => LET r == call.result
           fields == call.rdmp.rdmp_json.fields
       IN  /\ r.total_required = Cardinality(RequiredAt(fields))
           /\ r.total_filled = Cardinality(Filled(call.sample))
           /\ r.total_required - Len(r.missing_fields) <= r.total_filled

\* as many keys filled as fields required, one of them not declared, and
\* the sample is incomplete
C19_Witness ==
  /\ Completeness
  /\ call.result.total_filled >= call.result.total_required
  /\ call.result.total_required > 0
  /\ "batch" \in Filled(call.sample)
  /\ Len(call.sample.field_values) > Cardinality(Filled(call.sample))
  /\ ~call.result.is_complete

\* ------------------------------------------------------------- releases
RefusalStatuses == {"DuplicateTag", "UnknownRDMPVersion", "UnknownParentRelease"}
Refusal(r) == r.status \in RefusalStatuses
TagTaken(table, project_id, tag) ==
  \E r \in table : r.project_id = project_id /\ r.release_tag = tag

\* C20: a creation for a (project_id, release_tag) pair that a release
\* already has fails with DuplicateTag and leaves the releases as they
\* were, also when two creations for the pair run concurrently: no two
\* releases ever share the pair.
C20_DuplicateTagRefused ==
  [][/\ \A p \in Procs :
          /\ (pc[p] = "idle" /\ pc'[p] = "done" /\ Refusal(resp'[p])
                /\ TagTaken(releases, resp'[p].errors[1].project_id,
                            resp'[p].errors[1].release_tag))
               => resp'[p].status = "DuplicateTag"
          /\ (pc[p] = "insert" /\ req[p].op = "create_release" /\ pc'[p] = "done"
                /\ TagTaken(releases, req[p].target, req[p].tag))
               => resp'[p].status = "DuplicateTag"
          /\ (pc[p] # "done" /\ pc'[p] = "done" /\ resp'[p].status = "DuplicateTag")
               => releases' = releases
     /\ \A r1, r2 \in releases' :
          (r1.project_id = r2.project_id /\ r1.release_tag = r2.release_tag) => r1 = r2]_vars

\* one tag released in two projects, and a further creation refused
C20_Witness ==
  /\ \E r1, r2 \in releases :
       r1.project_id # r2.project_id /\ r1.release_tag = r2.release_tag
  /\ \E p \in Procs : resp[p].status = "DuplicateTag"

\* the RDMP version exists and is of the project
VersionOfProject(project_id, rdmp_version_id) ==
  \E v \in rdmp_versions : v.id = rdmp_version_id /\ v.project_id = project_id

RefusedWith(p, status) ==
  pc'[p] = "done" /\ "status" \in DOMAIN resp'[p] /\ resp'[p].status = status

\* C21: every release references an RDMP version that exists and belongs to
\* the release's own project; a creation whose rdmp_version_id does not exist
\* or belongs to another project is never taken to the insert, is refused
\* (with UnknownRDMPVersion when the tag is free, the tag being looked at
\* first) and leaves the releases as they were.
C21_ReleaseReferencesOwnVersion ==
  [][/\ \A r \in releases' : VersionOfProject(r.project_id, r.rdmp_version_id)'
     /\ \A p \in Procs :
          /\ (pc[p] = "idle" /\ pc'[p] = "insert" /\ req'[p].op = "create_release")
               => VersionOfProject(req'[p].target, req'[p].rdmp_version_id)
          /\ (pc[p] = "idle" /\ RefusedWith(p, "UnknownRDMPVersion"))
               => /\ releases' = releases
                  /\ ~VersionOfProject(resp'[p].errors[1].project_id,
                                       resp'[p].errors[1].reference[1])
          /\ (pc[p] = "idle" /\ pc'[p] = "done" /\ Refusal(resp'[p]))
               => LET pr == resp'[p].errors[1].project_id
                      tag == resp'[p].errors[1].release_tag
                  IN  \A rv \in VersionIds, parent \in {None, Some(1)}, u \in Users :
                        (/\ ~VersionOfProject(pr, rv)
                         /\ create_release_begin(p, pr, tag, rv, parent, u))
                          => /\ releases' = releases
                             /\ IF TagTaken(releases, pr, tag)
                                THEN RefusedWith(p, "DuplicateTag")
                                ELSE RefusedWith(p, "UnknownRDMPVersion")]_vars

\* a release of one project, and a creation refused because the version it
\* names is a version of another project
C21_Witness ==
  /\ releases # {}
  /\ \E p \in Procs :
       /\ pc[p] = "done" /\ "status" \in DOMAIN resp[p]
       /\ resp[p].status = "UnknownRDMPVersion"
       /\ \E v \in rdmp_versions :
            /\ v.id = resp[p].errors[1].reference[1]
            /\ v.project_id # resp[p].errors[1].project_id

\* the release exists and is of the project
ReleaseOfProject(project_id, release_id) ==
  \E r \in releases : r.id = release_id /\ r.project_id = project_id

\* C22: every release that has a parent_release_id references a release that
\* exists and belongs to the same project; a creation whose parent_release_id
\* does not exist or belongs to another project is never taken to the insert,
\* is refused (with UnknownParentRelease when nothing looked at earlier, the
\* tag and the RDMP version, refuses it) and leaves the releases as they were.
C22_ParentIsReleaseOfSameProject ==
  [][/\ \A r \in releases' :
          r.parent_release_id # None
            => ReleaseOfProject(r.project_id, r.parent_release_id[1])'
     /\ \A p \in Writers :
          /\ (pc[p] = "idle" /\ pc'[p] = "insert" /\ req'[p].op = "create_release"
                /\ req'[p].parent_release_id # None)
               => ReleaseOfProject(req'[p].target, req'[p].parent_release_id[1])
          /\ (pc[p] = "idle" /\ RefusedWith(p, "UnknownParentRelease"))
               => /\ releases' = releases
                  /\ resp'[p].errors[1].reference # None
                  /\ ~ReleaseOfProject(resp'[p].errors[1].project_id,
                                       resp'[p].errors[1].reference[1])
          /\ (pc[p] = "idle" /\ pc'[p] = "done" /\ Refusal(resp'[p]))
               => LET pr == resp'[p].errors[1].project_id
                      tag == resp'[p].errors[1].release_tag
                  IN  \A rv \in VersionIds, id \in ReleaseIds, u \in Users :
                        (/\ ~ReleaseOfProject(pr, id)
                         /\ create_release_begin(p, pr, tag, rv, Some(id), u))
                          => /\ releases' = releases
                             /\ IF TagTaken(releases, pr, tag)
                                THEN RefusedWith(p, "DuplicateTag")
                                ELSE IF ~VersionOfProject(pr, rv)
                                THEN RefusedWith(p, "UnknownRDMPVersion")
                                ELSE RefusedWith(p, "UnknownParentRelease")]_vars

\* a release whose parent is a release of its project, and a creation refused
\* because the parent it names is a release of another project
C22_Witness ==
  /\ \E r, q \in releases :
       r.parent_release_id = Some(q.id) /\ q.project_id = r.project_id
  /\ \E p \in Writers :
       /\ pc[p] = "done" /\ "status" \in DOMAIN resp[p]
       /\ resp[p].status = "UnknownParentRelease"
       /\ \E q \in releases :
            /\ Some(q.id) = resp[p].errors[1].reference
            /\ q.project_id # resp[p].errors[1].project_id

\* the chain walked for as many steps as there are releases: a walk that
\* came back to a release would show it twice
Chain(table, release) == Walk(table, release, Cardinality(table))

\* C23: the releases of a project form a forest: the walk along the parent
\* links from any release visits no release twice, stays in the project and
\* ends at a release with no parent; a correction with a valid parent goes to
\* the insert and is created as a new node, the releases before it unchanged,
\* whose chain contains the release it corrects.
C23_ReleasesFormForest ==
  [][/\ \A r \in releases' :
          LET chain == Chain(releases', r)
          IN  /\ \A i, j \in 1..Len(chain) : chain[i] = chain[j] => i = j
              /\ \A i \in 1..Len(chain) : chain[i].project_id = r.project_id
              /\ chain[Len(chain)].parent_release_id = None
     /\ \A p \in Writers :
          /\ (pc[p] = "idle" /\ pc'[p] # "idle")
               => \A pr \in ReleaseProjects, tag \in CorrectionTags, rv \in VersionIds,
                     id \in ReleaseIds, u \in Users :
                    (/\ ReleaseOfProject(pr, id) /\ VersionOfProject(pr, rv)
                     /\ ~TagTaken(releases, pr, tag)
                     /\ create_release_begin(p, pr, tag, rv, Some(id), u))
                      => pc'[p] = "insert"
          /\ (pc[p] = "insert" /\ req[p].op = "create_release" /\ pc'[p] = "done"
                /\ req[p].parent_release_id # None)
               => /\ resp'[p] = Created
                  /\ \E new \in releases' :
                       /\ releases' = releases \cup {new}
                       /\ \A r \in releases : r.id # new.id
                       /\ new.project_id = req[p].target /\ new.release_tag = req[p].tag
                       /\ new.parent_release_id = req[p].parent_release_id
                       /\ \E i \in 2..Len(Chain(releases', new)) :
                            Chain(releases', new)[i].id = req[p].parent_release_id[1]]_vars

\* a correction of a correction: a chain of three releases of one project
C23_Witness ==
  \E r \in releases :
    /\ Len(Chain(releases, r)) = 3
    /\ Chain(releases, r)[3].parent_release_id = None

\* C24: once committed, an RDMP document or a release is never changed or
\* deleted: every step leaves every row of rdmp_versions, of
\* rdmp_template_versions and of releases in its table with every attribute
\* as it was.
C24_CommittedRowsNeverChange ==
  [][/\ \A r \in rdmp_versions : r \in rdmp_versions'
     /\ \A r \in rdmp_template_versions : r \in rdmp_template_versions'
     /\ \A r \in releases : r \in releases']_vars

\* the handler p answers with this step that it created what was asked
Succeeds(p) == pc[p] # "done" /\ pc'[p] = "done" /\ resp'[p].status = "201_CREATED"

\* C25: every successful state-changing operation (create_template,
\* create_template_version, create_project_rdmp_version, creation of a
\* release) appends exactly one AuditEntry, of a creation, with before absent
\* and after present; a step that completes no operation successfully, a
\* failing one included, appends none.
C25_OneAuditEntryPerChange ==
  [][IF \E p \in Procs : Succeeds(p)
     THEN \E e \in audit_logs' :
            /\ e \notin audit_logs
            /\ audit_logs' = audit_logs \cup {e}
            /\ e.action_type = "CREATE"
            /\ e.before_json = None
            /\ e.after_json # None
     ELSE audit_logs' = audit_logs]_vars

\* C26: the audit log only grows: every step leaves every AuditEntry in
\* the table with every attribute as it was, the step that deletes the
\* project the entry refers to included.
C26_AuditLogOnlyGrows ==
  [][\A e \in audit_logs : e \in audit_logs']_vars

ListCalls == {"list_project_rdmp_versions", "list_template_versions"}

\* the committed documents of the scope a list was asked for, and its latest
ScopeOf(c) ==
  IF c.fn = "list_project_rdmp_versions"
  THEN {r \in rdmp_versions : r.project_id = c.id}
  ELSE {r \in rdmp_template_versions : r.template_id = c.id}

LatestOf(c) ==
  IF c.fn = "list_project_rdmp_versions"
  THEN get_current_rdmp(rdmp_versions, c.id)
  ELSE latest_template_version(rdmp_template_versions, c.id)

\* C27: list_template_versions and list_project_rdmp_versions return every
\* committed document of the scope asked for, each once, and none of another
\* scope, in strictly descending order of version_int, so that the first
\* element is the document the latest-version read returns (none when the
\* list is empty).
C27_ListsWholeScopeDescending ==
  [][(call = NoCall /\ call' # NoCall /\ call'.fn \in ListCalls)
       => LET versions == call'.versions
          IN  /\ Range(versions) = ScopeOf(call')
              /\ Len(versions) = Cardinality(ScopeOf(call'))
              /\ \A i, j \in 1..Len(versions) :
                   i < j => versions[i].version_int > versions[j].version_int
              /\ IF versions = <<>> THEN LatestOf(call') = None
                 ELSE LatestOf(call') = Some(versions[1])]_vars

\* a list of two versions of a project while another project has versions,
\* and the same for templates
C27_Witness ==
  /\ call.fn \in ListCalls
  /\ Len(call.versions) = 2
  /\ call.versions[1].version_int = 2
  /\ \E r \in rdmp_versions : r.project_id = 1
  /\ \E r \in rdmp_versions : r.project_id = 2
  /\ \E r \in rdmp_template_versions : r.template_id = 1
  /\ \E r \in rdmp_template_versions : r.template_id = 2

\* a call of resolve_watcher_config has returned
Resolving == call.fn = "resolve_watcher_config"
Gives(cfg, key) == key \in DOMAIN cfg

\* the id of the only entry of that name in an answer of the supervisor
OnlyMatch(answer, name, id) ==
  /\ answer.ok
  /\ \E i \in 1..Len(answer.rows) :
       /\ answer.rows[i].name = name /\ answer.rows[i].id = id
       /\ \A j \in 1..Len(answer.rows) : answer.rows[j].name = name => j = i

\* C28: numeric project_id and storage_root_id are used as given whatever
\* names the config also has: the result carries them, resolved_by_name is
\* false and neither get_projects nor get_storage_roots is called; when both
\* names are used, get_projects is called first, and get_storage_roots (if it
\* is called at all) after it and for the id of the project of that name, and
\* the result carries the ids of the only entries of those names.
C28_IdsPrecedeNamesProjectFirst ==
  Resolving =>
    LET cfg == call.watcher_cfg
    IN  /\ (Gives(cfg, "watch_path") /\ Gives(cfg, "project_id")
              /\ Gives(cfg, "storage_root_id"))
             => /\ call.error = None /\ call.result # None
                /\ call.result[1].project_id = cfg["project_id"]
                /\ call.result[1].storage_root_id = cfg["storage_root_id"]
                /\ call.result[1].resolved_by_name = FALSE
                /\ call.calls = <<>>
        /\ (Gives(cfg, "watch_path") /\ ~Gives(cfg, "project_id")
              /\ ~Gives(cfg, "storage_root_id") /\ Gives(cfg, "project_name")
              /\ Gives(cfg, "storage_root_name"))
             => /\ Len(call.calls) \in {1, 2}
                /\ call.calls[1] = GetProjects
                /\ Len(call.calls) = 2
                     => \E id \in {1, 2} :
                          /\ call.calls[2] = GetStorageRoots(id)
                          /\ OnlyMatch(call.client.projects, cfg["project_name"], id)
                /\ call.result # None
                     => /\ Len(call.calls) = 2
                        /\ call.result[1].resolved_by_name = TRUE
                        /\ OnlyMatch(call.client.projects, cfg["project_name"],
                                     call.result[1].project_id)
                        /\ OnlyMatch(call.client.storage_roots[call.result[1].project_id],
                                     cfg["storage_root_name"],
                                     call.result[1].storage_root_id)

\* ids and names both given, with a supervisor that would not have answered
C28_Witness ==
  /\ Resolving
  /\ DOMAIN call.watcher_cfg = {"watch_path", "project_id", "project_name",
                                "storage_root_id", "storage_root_name"}
  /\ ~call.client.projects.ok
  /\ call.result # None /\ call.result[1].project_id = 2
  /\ call.calls = <<>>

\* how an answer of the supervisor fails a name: no error when exactly one
\* entry has the name
Count(answer, name) == Cardinality({i \in 1..Len(answer.rows) : answer.rows[i].name = name})
Fault(answer, name) ==
  IF ~answer.ok THEN Some("api error")
  ELSE IF Count(answer, name) = 0 THEN Some("not found")
  ELSE IF Count(answer, name) > 1 THEN Some("ambiguous")
  ELSE None

\* the id of the project a config asks for, when it can be told
ProjectAsked(cfg, client) ==
  IF Gives(cfg, "project_id") THEN cfg["project_id"]
  ELSE CHOOSE id \in {1, 2} : OnlyMatch(client.projects, cfg["project_name"], id)

\* the errors the claim lists, in the config and in the answers
Expected(cfg, client) ==
  IF ~Gives(cfg, "watch_path") THEN Some("missing")
  ELSE IF ~Gives(cfg, "project_id") /\ ~Gives(cfg, "project_name") THEN Some("missing")
  ELSE IF ~Gives(cfg, "storage_root_id") /\ ~Gives(cfg, "storage_root_name")
  THEN Some("missing")
  ELSE IF ~Gives(cfg, "project_id") /\ Fault(client.projects, cfg["project_name"]) # None
  THEN Fault(client.projects, cfg["project_name"])
  ELSE IF Gives(cfg, "storage_root_id") THEN None
  ELSE Fault(client.storage_roots[ProjectAsked(cfg, client)], cfg["storage_root_name"])

\* C29: resolve_watcher_config returns exactly one of result and error: a
\* missing watch_path, neither project_id nor project_name, neither
\* storage_root_id nor storage_root_name, a name with no entry, a name with
\* more than one entry, and an API failure while fetching each give no result
\* and the error of that kind; every other call gives a result and no error.
C29_ResultOrError ==
  Resolving =>
    LET expected == Expected(call.watcher_cfg, call.client)
    IN  /\ (call.result = None) # (call.error = None)
        /\ expected = None => call.result # None
        /\ expected # None => (call.error # None /\ call.error[1].kind = expected[1])

\* the project is found by its name and the fetch of its storage roots fails
C29_Witness ==
  /\ Resolving
  /\ call.result = None /\ call.error # None /\ call.error[1].kind = "api error"
  /\ call.calls = <<GetProjects, GetStorageRoots(2)>>

\* how often a call of resolve_all_watchers has made that call of the API
Times(calls, c) == Cardinality({i \in 1..Len(calls) : calls[i] = c})

Handled(c) == SubSeq(c.watchers_cfg, 1, Len(c.watchers_cfg) - Len(c.todo))

\* a resolved config is the one of that watcher config
ResolvedFrom(resolved, cfg, client) ==
  /\ resolved.watch_path = cfg["watch_path"]
  /\ resolved.project_id = ProjectAsked(cfg, client)
  /\ Gives(cfg, "storage_root_id") => resolved.storage_root_id = cfg["storage_root_id"]
  /\ resolved.resolved_by_name
       = (~Gives(cfg, "project_id") \/ ~Gives(cfg, "storage_root_id"))

\* C31: resolve_all_watchers puts every watcher config it has gone through
\* in exactly one of the resolved list and the failed list, the latter as a
\* pair of the config and its error: the resolved list is, in input order, the
\* configs that resolve on their own, the failed list, in input order, the
\* others, whatever came before them; the lengths sum to the number of inputs
\* when the call returns, and an empty input ends with two empty lists.
C31_EveryWatcherResolvedOrFailed ==
  call.fn = "resolve_all_watchers" =>
    LET good == SelectSeq(Handled(call), LAMBDA cfg : Expected(cfg, call.client) = None)
        bad == SelectSeq(Handled(call), LAMBDA cfg : Expected(cfg, call.client) # None)
    IN  /\ Len(call.resolved) = Len(good)
        /\ Len(call.failed) = Len(bad)
        /\ Len(call.resolved) + Len(call.failed) + Len(call.todo) = Len(call.watchers_cfg)
        /\ \A i \in 1..Len(call.resolved) :
             i <= Len(good) => ResolvedFrom(call.resolved[i], good[i], call.client)
        /\ \A i \in 1..Len(call.failed) :
             i <= Len(bad) => /\ call.failed[i][1] = bad[i]
                              /\ call.failed[i][2].kind = Expected(bad[i], call.client)[1]
        /\ call.watchers_cfg = <<>> => (call.resolved = <<>> /\ call.failed = <<>>)

\* a watcher that fails between two that resolve
C31_Witness ==
  /\ call.fn = "resolve_all_watchers"
  /\ call.todo = <<>> /\ Len(call.watchers_cfg) = 3
  /\ Len(call.resolved) = 2 /\ Len(call.failed) = 1
  /\ call.failed[1][1] = call.watchers_cfg[2]
  /\ call.failed[1][2].kind = "not found"

\* the resolver grants the user the permission on the store as it is
Permitted(ms, rv, project_id, user_id, permission_name) ==
  LET checked == check_permission(ms, rv, project_id, user_id, permission_name)
  IN  ~checked.raised /\ checked.value = TRUE

\* C32: create_project_rdmp_version commits a new version of a project only
\* when the permissions of the acting user, resolved from the project's
\* membership and current RDMP at the moment of the commit, have
\* can_manage_rdmp true.
C32_AppendOnlyWithCanManageRDMP ==
  [][\A r \in rdmp_versions' :
       (r.id \notin {q.id : q \in rdmp_versions})
         => Permitted(memberships, rdmp_versions, r.project_id, r.created_by, "can_manage_rdmp")]_vars

\* every committed template has its version 1
TemplatesHaveVersionOne ==
  \A t \in rdmp_templates :
    \E v \in rdmp_template_versions : v.template_id = t.id /\ v.version_int = 1

\* C33: an append that fails or is abandoned leaves no partial state: a step
\* in which no handler answers 201 (a rejected body, a uniqueness conflict, a
\* handler stopped between its query and its commit) leaves the three
\* document tables as they were, and create_template commits the template
\* row and its version 1 together or neither, so after every step every
\* committed template has a version with version_int = 1.
C33_NoPartialAppend ==
  [][/\ (\A p \in Procs : ~Succeeds(p))
          => UNCHANGED <<rdmp_templates, rdmp_template_versions, rdmp_versions>>
     /\ TemplatesHaveVersionOne']_vars

\* one template committed with its version 1, a second create_template of
\* the same name refused, a third request stopped before its commit
C33_Witness ==
  /\ Cardinality(rdmp_templates) = 1
  /\ Cardinality(rdmp_template_versions) = 1
  /\ \E p, q \in Procs :
       /\ pc[p] = "done" /\ resp[p].status = "IntegrityError"
       /\ req[q].op = "create_template_version" /\ pc[q] = "insert"

\* the resolved permission map of the user names the permission and holds
\* true for it
GrantedByMap(ms, rv, project_id, user_id, permission_name) ==
  LET resolved == get_user_permissions_atomic(ms, rv, project_id, user_id)
  IN  /\ ~resolved.raised
      /\ permission_name \in DOMAIN resolved.perms
      /\ resolved.perms[permission_name] = TRUE

\* C34: a handler wrapped by require_project_permission(p) runs only if
\* project_id, current_user and db are supplied and the resolved permission
\* map of the user holds true for p; a request without project_id ends with
\* 400, one with project_id but without current_user or db with 500, one
\* with all three whose permission is false or not named by the resolved
\* map with 403, and in none of these the handler runs.
C34_GuardedHandlerRunsOnlyPermitted ==
  [][(call = NoCall /\ call'.fn = "require_project_permission") =>
       LET k == call'.kwargs
           o == call'.outcome
           supplied == k.project_id # None /\ k.current_user # None /\ k.db # None
           granted == /\ supplied
                      /\ GrantedByMap(memberships, rdmp_versions, k.project_id[1],
                                      k.current_user[1], call'.permission_name)
       IN  /\ o.ran => granted
           /\ k.project_id = None => o.status_code = 400
           /\ (k.project_id # None /\ (k.current_user = None \/ k.db = None))
                => o.status_code \in {400, 500}
           /\ (Truthy(k.project_id) /\ (k.current_user = None \/ k.db = None))
                => o.status_code = 500
           /\ (supplied /\ Truthy(k.project_id) /\ ~granted) => o.status_code = 403
           /\ o.status_code \in {400, 500, 403} => ~o.ran]_vars

\* a member whose role holds every permission of the RDMP asks for a
\* permission the map does not name and is refused with 403
C34_Witness ==
  /\ call.fn = "require_project_permission"
  /\ call.permission_name = "can_delete_project"
  /\ call.outcome.status_code = 403 /\ ~call.outcome.ran
  /\ GrantedByMap(memberships, rdmp_versions, 1, 1, "can_manage_rdmp")
  /\ GrantedByMap(memberships, rdmp_versions, 1, 1, "can_edit_metadata")

\* the row of a non-empty scope committed last: ids are handed out in commit
\* order
MostRecentlyCommitted(rows) == CHOOSE r \in rows : \A q \in rows : q.id <= r.id
FirstCommitted(rows) == CHOOSE r \in rows : \A q \in rows : q.id >= r.id

\* C35: per project, the version_int get_current_rdmp returns never
\* decreases (once it has returned a version it never returns none or a
\* lower one), the document it returns, whose fields are the required-field
\* list in force, is the most recently committed version of the project, and
\* the permissions the resolver returns for a member are those of the role
\* in that most recently committed version.
C35_LatestNeverDecreases ==
  [][/\ \A pr \in Projects :
          LET before == get_current_rdmp(rdmp_versions, pr)
              after == get_current_rdmp(rdmp_versions', pr)
              rows == ProjectRows(rdmp_versions', pr)
          IN  /\ before # None =>
                   after # None /\ after[1].version_int >= before[1].version_int
              /\ rows # {} => after = Some(MostRecentlyCommitted(rows))
     /\ (rpc = "rdmp" /\ rpc' = "done") =>
          LET rows == ProjectRows(rdmp_versions, rreq.project_id)
          IN  rresult' = RolePermissions(membership[1],
                           IF rows = {} THEN None ELSE Some(MostRecentlyCommitted(rows)))]_vars

\* the resolver has answered a member of a project with two versions, and
\* the answer is that of version 2, which differs from that of version 1
C35_Witness ==
  /\ rpc = "done" /\ membership # None
  /\ LET rows == ProjectRows(rdmp_versions, rreq.project_id)
     IN  /\ Cardinality(rows) = 2
         /\ MostRecentlyCommitted(rows).version_int = 2
         /\ rresult = RolePermissions(membership[1], Some(MostRecentlyCommitted(rows)))
         /\ rresult # RolePermissions(membership[1], Some(FirstCommitted(rows)))

\* C36: every committed version belongs to a scope that exists: the project
\* of every row of rdmp_versions is a row of projects and the template of
\* every row of rdmp_template_versions is a row of rdmp_templates (an append
\* to an id that does not exist writes nothing).
C36_VersionsBelongToExistingScope ==
  /\ \A v \in rdmp_versions : v.project_id \in projects
  /\ \A v \in rdmp_template_versions :
       \E t \in rdmp_templates : t.id = v.template_id

Requests(trace) == SelectSeq(trace, LAMBDA x : x.ev = "request")
Logins(trace) == SelectSeq(trace, LAMBDA x : x.ev = "login")

\* C37: a call of SupervisorClient._request sends the request at most twice;
\* a second request follows only a first answer 401, after exactly one new
\* login, and carries the token of that login, the old one being dropped; a
\* call that starts with a cached token sends it without logging in, one
\* without a token logs in first; the call returns exactly when the last
\* answer is below 400 and raises otherwise, a second 401 included; and the
\* token of a request that was answered below 400 stays cached.
C37_RequestSentAtMostTwice ==
  LET trace == supervisor_client.trace
      n == Len(trace)
      reqs == Requests(trace)
      relogin == IF reqs # <<>> /\ reqs[1].status_code = 401 THEN 1 ELSE 0
  IN  /\ Len(reqs) <= 2
      /\ Len(reqs) = 2 =>
           /\ trace[n - 2].ev = "request" /\ trace[n - 2].status_code = 401
           /\ trace[n - 1].ev = "login" /\ trace[n - 1].status_code = 200
           /\ trace[n].ev = "request" /\ trace[n].token = trace[n - 1].token
           /\ trace[n].token # trace[n - 2].token
      /\ (n > 0 /\ supervisor_client.cached # None) =>
           trace[1].ev = "request" /\ trace[1].token = supervisor_client.cached
      /\ (n > 0 /\ supervisor_client.cached = None) => trace[1].ev = "login"
      /\ Len(Logins(trace)) <= relogin + (IF supervisor_client.cached = None THEN 1 ELSE 0)
      /\ relogin = 1 => supervisor_client._token # reqs[1].token
      /\ supervisor_client.pc = "done" =>
           /\ supervisor_client.outcome = "returned"
                <=> (trace[n].ev = "request" /\ trace[n].status_code < 400)
           /\ supervisor_client.outcome # "returned"
                => supervisor_client.outcome \in {"Login failed", "API error"}
           /\ (trace[n].ev = "request" /\ trace[n].status_code = 401) => Len(reqs) = 2
      /\ supervisor_client.outcome = "returned"
           => supervisor_client._token = trace[n].token /\ trace[n].token # None

\* a later call starts with the cached token, is answered 401, logs in again
\* and is answered 401 a second time: it raises after two requests
C37_Witness ==
  /\ supervisor_client.pc = "done"
  /\ supervisor_client.calls = 2
  /\ supervisor_client.cached # None
  /\ Len(supervisor_client.trace) = 3
  /\ supervisor_client.trace[1].status_code = 401
  /\ supervisor_client.trace[3].status_code = 401
  /\ supervisor_client.outcome = "API error"

\* C38: over any sequence of creation events, also events queued while an
\* earlier one is being handled, _process_file runs at most once per
\* resolved path, whether the earlier run returned or raised; and a step
\* that starts _process_file starts it for an event that is not a directory
\* event, on the resolved path of that event, and that file exists after
\* the wait.
C38_ProcessedAtMostOncePerPath ==
  [][/\ \A i, j \in DOMAIN handler'.runs :
          i # j => handler'.runs[i].file_path # handler'.runs[j].file_path
     /\ Len(handler'.runs) > Len(handler.runs) =>
          LET run == handler'.runs[Len(handler'.runs)]
          IN  /\ ~run.event.is_directory
              /\ run.file_path = Resolve(run.event.src_path)
              /\ run.file_path \in handler.files
              /\ run.file_path \notin {handler.runs[i].file_path : i \in DOMAIN handler.runs}]_vars

\* the processing of a file has raised and the file is still there, while
\* two more events for the same resolved path, one of them through the
\* link, wait in the queue
C38_Witness ==
  /\ handler.pc = "idle"
  /\ Len(handler.runs) = 1
  /\ handler.runs[1].raised = Some(TRUE)
  /\ handler.runs[1].file_path \in handler.files
  /\ Len(handler.queue) = 2
  /\ \A i \in 1..2 : Resolve(handler.queue[i].src_path) = handler.runs[1].file_path
  /\ \E i \in 1..2 : handler.queue[i].src_path = "link_to_run1"

\* the positions of the operation op in what _process_file did
Positions(did, op) == {i \in DOMAIN did : did[i].op = op}
RequiredKeys(rdmp_fields) ==
  LET required == SelectSeq(rdmp_fields, LAMBDA f : f.required)
  IN  [i \in DOMAIN required |-> required[i].key]
\* what is typed for the key can be sent: something, and a number where the
\* field is a number
Sendable(key, typed) ==
  /\ typed[key] # <<>>
  /\ FieldType(key) = "number" => ParsesAsFloat(JStr(typed[key]))

\* C39: in _process_file every prompt and every set_sample_field comes after
\* a create_raw_data_item that succeeded (none when the registration failed)
\* and after a find_or_create_sample that succeeded; the fields prompted are
\* the first required fields of the RDMP in declaration order, at most
\* max_field_prompts of them; and when the registration and the sample
\* succeeded every one of them is prompted and every one with a sendable
\* answer is sent, whether or not the supervisor refused an earlier one.
C39_RegisteredBeforeFieldsSet ==
  call.fn = "_process_file" =>
    LET did == call.out.did
        sets == Positions(did, "set_sample_field")
        prompts == SelectSeq(did, LAMBDA d : d.op = "prompt_for_value")
        required == RequiredKeys(call.rdmp_fields)
        reached == /\ call.given.relative_path_ok /\ call.given.file_exists
                   /\ call.given.registered_ok
                   /\ call.given.sample_identifier # None /\ call.given.sample_ok
    IN  /\ \A i \in sets \cup Positions(did, "prompt_for_value") :
             /\ \E j \in 1..(i - 1) : did[j].op = "create_raw_data_item" /\ did[j].ok
             /\ \E j \in 1..(i - 1) : did[j].op = "find_or_create_sample" /\ did[j].ok
        /\ Len(prompts) <= call.max_field_prompts
        /\ Len(prompts) <= Len(required)
        /\ \A i \in DOMAIN prompts : prompts[i].key = required[i]
        /\ \A i \in sets : did[i - 1] = Did("prompt_for_value", did[i].key, None, TRUE)
        /\ reached =>
             /\ Len(prompts) = Len(required) \/ Len(prompts) = call.max_field_prompts
             /\ \A i \in DOMAIN prompts :
                  Sendable(prompts[i].key, call.given.typed)
                    => \E j \in sets : /\ did[j].key = prompts[i].key
                                        /\ did[j].value.v = call.given.typed[prompts[i].key]
                                        /\ did[j].ok = (did[j].key \notin call.given.refused)

\* three required fields and two prompts allowed: the supervisor refuses
\* the first field and the second is set all the same, the third never asked
C39_Witness ==
  /\ call.fn = "_process_file"
  /\ Len(RequiredKeys(call.rdmp_fields)) = 3
  /\ call.max_field_prompts = 2
  /\ LET did == call.out.did
     IN  /\ Len(did) = 6
         /\ did[2].op = "create_raw_data_item" /\ did[2].ok
         /\ did[4].op = "set_sample_field" /\ ~did[4].ok
         /\ did[6].op = "set_sample_field" /\ did[6].ok

====
